---- MODULE Spec2Model ----
(***************************************************************************)
(* Model of the provider-quickstart bootstrapper (package bootstrap):      *)
(* Bootstrap, bootstrapFS, createResourcesFromFS, createResourceFromFS,    *)
(* createResource and createControllerKubeconfigSecret, run against an API *)
(* server that holds objects, a type catalog and the service-account token *)
(* secret.  Every API call of the bootstrapper is one step of the model.   *)
(* The Cowboy reconciler (operator/wild-west/controller.go) and the portal *)
(* page of the cowboys (portal/src/app/cowboys) are modelled next to it,   *)
(* each with its own variables and its own specification.                  *)
(***************************************************************************)
EXTENDS Integers, Sequences, FiniteSets, TLC

VARIABLES
    fs,            \* the three embedded manifest sets, step -> sequence of directory entries
    config,        \* the caller's rest.Config: its host and whether clients can be built from it
    pc,            \* where the bootstrap process stands
    step,          \* Bootstrap's current step: 1 kcp, 2 provider, 3 controller, 4 credential
    result,        \* what Bootstrap returned: "running", "ok" or "error"
    attempt,       \* bootstrapFS: attempt
    lastErr,       \* bootstrapFS: lastErr (<<>> is nil)
    fi,            \* createResourcesFromFS: index of the directory entry being processed
    errs,          \* createResourcesFromFS: errs
    di,            \* createResourceFromFS: i, the number of the document read last
    fileErrs,      \* createResourceFromFS: errs
    urv,           \* createResource: u.resourceVersion (0 is unset)
    delegate,      \* the deferred REST mapper's delegate, built from one catalog fetch
    cacheValid,    \* the memory discovery cache holds a fetched catalog
    elapsed,       \* credential wait: seconds elapsed since the wait began
    polled,        \* credential wait: the token secret kept by the successful poll
    secretRV,      \* credential step: secret.ResourceVersion (0 is unset)
    objects,       \* API server: the objects named by manifests
    catalog,       \* API server: the kinds it currently serves
    tokenSecret,   \* API server: secret default/wildwest-controller-token
    kubeSecret,    \* API server: secret default/wildwest-controller-kubeconfig
    ctxDone,       \* the caller's context is cancelled or past its deadline
    faults,        \* API calls that may still fail for a reason of the network or server
    runs,          \* number of Bootstrap runs started
    calls,         \* history: the calls issued for the document being applied
    passLog,       \* history: the documents attempted in the current pass, in order
    failed,        \* history: the documents whose apply failed in the current pass
    passes,        \* history: passes completed by the current retry loop
    invalidations, \* history: cache invalidations made by the current retry loop
    issued,        \* history: steps of this run that have issued an API call
    stepOK,        \* history: steps of this run that returned success
    errStep,       \* history: the step whose error Bootstrap returned (0: none)
    credRuns,      \* history: times this run entered the credential materializer
    secretWrites,  \* history: writes of the kubeconfig secret this run made
    procs,         \* bootstrap processes that apply the first set side by side
    edits,         \* writes another actor has made to the set's objects
    cowboy,        \* API server: the Cowboy the reconciler is asked about
    rec,           \* CowboyReconciler.Reconcile: its position and its copy of the Cowboy
    recLog,        \* history: reconciles run, status updates sent, events recorded
    portal,        \* CowboysComponent: its signals and the alerts it has shown
    net            \* the portal's requests in flight and the cowboys the gateway stores

vars == <<fs, config, pc, step, result, attempt, lastErr, fi, errs, di, fileErrs, urv,
          delegate, cacheValid, elapsed, polled, secretRV, objects, catalog, tokenSecret,
          kubeSecret, ctxDone, faults, runs, calls, passLog, failed, passes,
          invalidations, issued, stepOK, errStep, credRuns, secretWrites, procs, edits,
          cowboy, rec, recLog, portal, net>>

(* The state of the processes that run side by side, and of the other actor. *)
Conc == <<procs, edits>>

(* The state of the reconciler and of the portal. *)
Apps == <<cowboy, rec, recLog, portal, net>>

----------------------------------------------------------------------------
(* Bounds of the model. *)

MaxAttempts == 3      \* passes one retry loop may start while the environment is unsettled
MaxFaults == 1        \* API calls that fail for an outside reason
MaxRuns == 2          \* Bootstrap runs against the same cluster

(* Program constants. *)

PollTimeoutSeconds == 30   \* wait.PollUntilContextTimeout(ctx, time.Second, 30*time.Second, ...)
YamlExtLen == 5            \* len(".yaml"), the name[len(name)-5:] of the extension test
YmlExtLen == 4             \* len(".yml")

KCP == 1
PROVIDER == 2
CONTROLLER == 3
CREDENTIAL == 4
SetSteps == {KCP, PROVIDER, CONTROLLER}

----------------------------------------------------------------------------
(* Manifest store: directory entries, files and YAML documents. *)

Kinds == {"APIExport", "ProviderMetadata", "ServiceAccount"}
KindOf == [s \in SetSteps |-> CASE s = KCP -> "APIExport"
                                [] s = PROVIDER -> "ProviderMetadata"
                                [] OTHER -> "ServiceAccount"]
Names == {"a", "b"}
ObjIds == Kinds \X Names

Doc(kind, name, body) ==
    [blank |-> FALSE, yamlOK |-> TRUE, kind |-> kind, name |-> name, body |-> body]
BlankDoc == [blank |-> TRUE, yamlOK |-> TRUE, kind |-> "", name |-> "", body |-> 0]
MalformedDoc == [blank |-> FALSE, yamlOK |-> FALSE, kind |-> "", name |-> "", body |-> 0]

File(name, docs, readErr) ==
    [name |-> name, isDir |-> FALSE, docs |-> docs, readErr |-> readErr]
Dir(name) == [name |-> name, isDir |-> TRUE, docs |-> <<>>, readErr |-> FALSE]

DotYaml == <<".", "y", "a", "m", "l">>
DotYml == <<".", "y", "m", "l">>
NameAYaml == <<"a">> \o DotYaml
NameBYml == <<"b">> \o DotYml
NameGo == <<"b", "o", "o", "t", ".", "g", "o">>
NameSub == <<"s", "u", "b">>

Suffix(name, n) == SubSeq(name, Len(name) - n + 1, Len(name))

(* The extension test of createResourcesFromFS: an entry is passed on unless
   len(name) < 5 || (name[len(name)-5:] != ".yaml" && name[len(name)-4:] != ".yml"). *)
HasManifestExt(name) ==
    ~(Len(name) < YamlExtLen
      \/ (Suffix(name, YamlExtLen) # DotYaml /\ Suffix(name, YmlExtLen) # DotYml))

(* The shapes a manifest set is drawn from; k is the kind the set's documents have. *)
CleanSet(k) == <<File(NameAYaml, <<Doc(k, "a", 1)>>, FALSE)>>
MixedSet(k) ==
    <<File(DotYml, <<Doc(k, "b", 2)>>, FALSE),
      File(NameAYaml, <<BlankDoc, Doc(k, "a", 1), Doc(k, "b", 2)>>, FALSE),
      File(NameBYml, <<>>, FALSE),
      File(NameGo, <<Doc(k, "b", 2)>>, FALSE),
      Dir(NameSub)>>
NoKindSet(k) ==
    <<File(NameAYaml, <<Doc("", "a", 1), Doc(k, "a", 1)>>, FALSE),
      File(NameBYml, <<Doc(k, "b", 2)>>, FALSE)>>
MalformedSet(k) ==
    <<File(NameAYaml, <<MalformedDoc, Doc(k, "a", 1)>>, FALSE),
      File(NameBYml, <<Doc(k, "b", 2)>>, FALSE)>>
ReadErrSet(k) ==
    <<File(NameAYaml, <<Doc("", "a", 1)>>, TRUE),
      File(NameBYml, <<Doc(k, "b", 2)>>, FALSE)>>
ManifestChoices(k) ==
    {CleanSet(k), MixedSet(k), NoKindSet(k), MalformedSet(k), ReadErrSet(k)}

(* The documents the YAML reader of a file yields that are applied. *)
IsManifestFile(f) == ~f.isDir /\ HasManifestExt(f.name)
AppliedDocs(files) ==
    UNION {{<<f, d>> : d \in {e \in 1..Len(files[f].docs) : ~files[f].docs[e].blank}} :
           f \in {g \in 1..Len(files) : IsManifestFile(files[g])}}
GoodDoc(doc) == doc.yamlOK /\ doc.kind # ""
GoodSet(files) ==
    /\ \A p \in AppliedDocs(files) : GoodDoc(files[p[1]].docs[p[2]])
    /\ \A f \in 1..Len(files) : IsManifestFile(files[f]) => ~files[f].readErr

----------------------------------------------------------------------------
(* Errors.  A nil error is the empty sequence. *)

DocErr(f, d, why, cause) == [f |-> f, d |-> d, why |-> why, cause |-> cause]
(* The error createResourceFromFS returns for one file: the aggregate of its
   documents' errors, or the YAML reader's error alone. *)
AggregateErr(docErrs) == [read |-> FALSE, d |-> 0, agg |-> docErrs]
ReadErr(d) == [read |-> TRUE, d |-> d, agg |-> <<>>]

----------------------------------------------------------------------------
(* The API server. *)

(* An object holds what its last writer sent: the content of a manifest
   document, and possibly fields no manifest has (extra). *)
NoObject == [exists |-> FALSE, rv |-> 0, body |-> 0, extra |-> FALSE]

ServerCreate(objs, id, u) ==
    IF objs[id].exists
    THEN [status |-> "AlreadyExists", objs |-> objs]
    ELSE [status |-> "ok",
          objs |-> [objs EXCEPT ![id] = [exists |-> TRUE, rv |-> 1,
                                         body |-> u.body, extra |-> u.extra]]]

ServerGet(objs, id) ==
    IF objs[id].exists
    THEN [status |-> "ok", rv |-> objs[id].rv]
    ELSE [status |-> "NotFound", rv |-> 0]

ServerUpdate(objs, id, rv, u) ==
    IF ~objs[id].exists THEN [status |-> "NotFound", objs |-> objs]
    ELSE IF rv # objs[id].rv THEN [status |-> "Conflict", objs |-> objs]
    ELSE [status |-> "ok",
          objs |-> [objs EXCEPT ![id] = [exists |-> TRUE, rv |-> rv + 1,
                                         body |-> u.body, extra |-> u.extra]]]

(* Mutant: the body sent keeps the fields the live object has beyond the manifest. *)
ManifestMergedWithLive(doc) ==
    [body |-> doc.body, extra |-> objects[<<doc.kind, doc.name>>].extra]

(* The object createResource sends: what yaml.Unmarshal decoded from the
   document, and nothing else. *)
Manifest(doc) == [body |-> doc.body, extra |-> FALSE]

(* A call for a kind the server does not serve is answered 404. *)
Served(kind) == kind \in catalog
Answer(kind, status) == IF Served(kind) THEN status ELSE "NotFound"

(* How an API call issued now ends before it reaches the server: a cancelled
   context fails it, and so may the network while faults remain. *)
CallOutcomes == IF ctxDone THEN {"ctx"}
                ELSE IF faults > 0 THEN {"sent", "fault"} ELSE {"sent"}
FaultsAfter(o) == IF o = "fault" THEN faults - 1 ELSE faults

----------------------------------------------------------------------------
(* The type resolver: restmapper.NewDeferredDiscoveryRESTMapper over
   memory.NewMemCacheClient.  The mapper answers from its delegate, which it
   builds from the cache on first use; the cache fetches the server's catalog
   when it holds none.  A miss while the cache is not fresh resets the mapper
   and is looked up once more in a newly fetched catalog. *)

NoDelegate == [built |-> FALSE, kinds |-> {}]
Built(kinds) == [built |-> TRUE, kinds |-> kinds]

(* getDelegate: the delegate in use, and the cache after building it. *)
GetDelegate(del, valid) ==
    IF del.built THEN [delegate |-> del, cacheValid |-> valid]
    ELSE [delegate |-> Built(catalog), cacheValid |-> TRUE]

(* Mutant: every miss is looked up once more in a newly fetched catalog. *)
RESTMappingRefetchOnMiss(kind) ==
    LET first == GetDelegate(delegate, cacheValid) IN
    IF kind \in first.delegate.kinds
    THEN [found |-> TRUE, delegate |-> first.delegate, cacheValid |-> first.cacheValid]
    ELSE [found |-> kind \in catalog, delegate |-> Built(catalog), cacheValid |-> TRUE]

RESTMapping(kind) ==
    LET first == GetDelegate(delegate, cacheValid) IN
    IF kind \in first.delegate.kinds
    THEN [found |-> TRUE, delegate |-> first.delegate, cacheValid |-> first.cacheValid]
    ELSE IF first.cacheValid
    THEN [found |-> FALSE, delegate |-> first.delegate, cacheValid |-> TRUE]
    ELSE [found |-> kind \in catalog, delegate |-> Built(catalog), cacheValid |-> TRUE]

----------------------------------------------------------------------------
(* Bootstrap's sequencing. *)

(* Mutant: the step after next. *)
StepAfterSkipping(s) == s + 2

StepAfter(s) == s + 1

(* Mutant: partial continue, Bootstrap goes on with the next step. *)
OnStepErrorContinue(s) ==
    [pc |-> "bootstrap", result |-> "running", step |-> s + 1, errStep |-> s]

(* Mutant: Bootstrap's error names the first step whichever step failed. *)
OnStepErrorNamesFirst(s) ==
    [pc |-> "returned", result |-> "error", step |-> s, errStep |-> KCP]

(* What Bootstrap does when step s returned an error: it returns the error. *)
OnStepError(s) == [pc |-> "returned", result |-> "error", step |-> s, errStep |-> s]

(* What Bootstrap does when its last step returned nil. *)
OnAllDone(s) == [pc |-> "returned", result |-> "ok", step |-> s, errStep |-> 0]

Files == fs[step]
CurFile == Files[fi]
CurDoc == CurFile.docs[di]
CurId == <<CurDoc.kind, CurDoc.name>>

(* The environment can no longer make a pass over the current set fail. *)
WillSucceed ==
    /\ faults = 0
    /\ GoodSet(Files)
    /\ \A p \in AppliedDocs(Files) : Files[p[1]].docs[p[2]].kind \in catalog

FSLocals == <<attempt, lastErr, fi, errs, di, fileErrs, urv>>
CredLocals == <<elapsed, polled, secretRV>>
Server == <<objects, catalog, tokenSecret, kubeSecret>>
PassHistory == <<calls, passLog, failed>>
LoopHistory == <<passes, invalidations>>

(* Bootstrap up to its first step: the clients are built from the config (an
   error of any of them is returned), then the cache and the mapper. *)
StartRun ==
    /\ pc = "start"
    /\ IF config.valid
       THEN pc' = "bootstrap" /\ UNCHANGED <<result, errStep>>
       ELSE pc' = "returned" /\ result' = "error" /\ errStep' = 0
    /\ step' = KCP
    /\ delegate' = NoDelegate
    /\ cacheValid' = FALSE
    /\ UNCHANGED <<Conc, Apps, fs, config, FSLocals, CredLocals, Server, ctxDone, faults, runs,
                   PassHistory, LoopHistory, issued, stepOK, credRuns, secretWrites>>

(* Bootstrap calls the step at hand: bootstrapFS for a manifest set, whose
   poll runs its condition at once, or createControllerKubeconfigSecret.  The
   callee starts with locals of its own; the histories start anew with it. *)
StartStep ==
    /\ pc = "bootstrap"
    /\ IF step \in SetSteps
       THEN pc' = "cond" /\ UNCHANGED credRuns
       ELSE pc' = "credpoll" /\ credRuns' = credRuns + 1
    /\ attempt' = 0
    /\ lastErr' = <<>>
    /\ fi' = 0
    /\ errs' = <<>>
    /\ di' = 0
    /\ fileErrs' = <<>>
    /\ urv' = 0
    /\ elapsed' = 0
    /\ calls' = <<>>
    /\ passLog' = <<>>
    /\ failed' = {}
    /\ passes' = 0
    /\ invalidations' = 0
    /\ UNCHANGED <<Conc, Apps, fs, config, step, result, delegate, cacheValid, polled, secretRV,
                   Server, ctxDone, faults, runs, issued, stepOK, errStep, secretWrites>>

----------------------------------------------------------------------------
(* bootstrapFS, createResourcesFromFS, createResourceFromFS, createResource. *)

(* The poll's condition is called: attempt++ and createResourcesFromFS starts
   on the directory listing. *)
PassBegin ==
    /\ pc = "cond"
    /\ attempt < MaxAttempts \/ WillSucceed
    /\ pc' = "files"
    /\ attempt' = attempt + 1
    /\ fi' = 0
    /\ errs' = <<>>
    /\ passLog' = <<>>
    /\ failed' = {}
    /\ calls' = <<>>
    /\ UNCHANGED <<Conc, Apps, fs, config, step, result, lastErr, di, fileErrs, urv, delegate, cacheValid,
                   CredLocals, Server, ctxDone, faults, runs, LoopHistory, issued,
                   stepOK, errStep, credRuns, secretWrites>>

(* One turn of the loop over the directory entries: directories, names without
   a manifest extension and empty files are passed over; any other file is
   handed to createResourceFromFS, which opens a YAML reader on it. *)
NextFile ==
    /\ pc = "files"
    /\ fi < Len(Files)
    /\ fi' = fi + 1
    /\ LET f == Files[fi + 1] IN
       IF IsManifestFile(f) /\ (Len(f.docs) > 0 \/ f.readErr)
       THEN pc' = "read" /\ di' = 0 /\ fileErrs' = <<>>
       ELSE pc' = "files" /\ UNCHANGED <<di, fileErrs>>
    /\ UNCHANGED <<Conc, Apps, fs, config, step, result, attempt, lastErr, errs, urv, delegate, cacheValid,
                   CredLocals, Server, ctxDone, faults, runs, PassHistory, LoopHistory,
                   issued, stepOK, errStep, credRuns, secretWrites>>

(* What createResourceFromFS returns when its reader stops at document d:
   on io.EOF the aggregate of the document errors (nil when there are none),
   on any other read error that error.  Returned as the list of errors
   createResourcesFromFS appends to its own. *)
FileResult(docErrs, readFailed, d) ==
    IF readFailed THEN <<ReadErr(d)>>
    ELSE IF docErrs = <<>> THEN <<>> ELSE <<AggregateErr(docErrs)>>

(* d.Read() ends the file, with io.EOF or with an error. *)
FileEnd ==
    /\ pc = "read"
    /\ di + 1 > Len(CurFile.docs)
    /\ pc' = "files"
    /\ errs' = errs \o FileResult(fileErrs, CurFile.readErr, di + 1)
    /\ UNCHANGED <<Conc, Apps, fs, config, step, result, attempt, lastErr, fi, di, fileErrs, urv, delegate,
                   cacheValid, CredLocals, Server, ctxDone, faults, runs, PassHistory,
                   LoopHistory, issued, stepOK, errStep, credRuns, secretWrites>>

(* d.Read() yields a document that is empty after bytes.TrimSpace: continue. *)
SkipBlank ==
    /\ pc = "read"
    /\ di + 1 <= Len(CurFile.docs)
    /\ CurFile.docs[di + 1].blank
    /\ di' = di + 1
    /\ UNCHANGED <<Conc, Apps, fs, config, pc, step, result, attempt, lastErr, fi, errs, fileErrs, urv,
                   delegate, cacheValid, CredLocals, Server, ctxDone, faults, runs,
                   PassHistory, LoopHistory, issued, stepOK, errStep, credRuns, secretWrites>>

(* Mutant: no test of gvk.Kind. *)
DecodeErrNoKindTest(doc) == IF ~doc.yamlOK THEN "unmarshal" ELSE ""

(* The head of createResource: yaml.Unmarshal, then the test of gvk.Kind.
   "" when the document goes on to the type resolver. *)
DecodeErr(doc) ==
    IF ~doc.yamlOK THEN "unmarshal"
    ELSE IF doc.kind = "" THEN "kind"
    ELSE ""

(* Mutant: a document's error ends the work on its file. *)
FinishStopsFile(why, cause) ==
    /\ pc' = IF why = "" THEN "read" ELSE "files"
    /\ fileErrs' = IF why = "" THEN fileErrs
                   ELSE Append(fileErrs, DocErr(fi, di', why, cause))
    /\ failed' = IF why = "" THEN failed ELSE failed \cup {<<fi, di'>>}

(* createResource returned for document di of file fi, with an error named
   by why (or nil when why is ""): createResourceFromFS records it and reads on. *)
Finish(why, cause) ==
    /\ pc' = "read"
    /\ fileErrs' = IF why = "" THEN fileErrs
                   ELSE Append(fileErrs, DocErr(fi, di', why, cause))
    /\ failed' = IF why = "" THEN failed ELSE failed \cup {<<fi, di'>>}

(* Mutant: a document that cannot be decoded ends the work on its file. *)
DecodeFailureEndsFile ==
    /\ pc = "read"
    /\ di + 1 <= Len(CurFile.docs)
    /\ ~CurFile.docs[di + 1].blank
    /\ di' = di + 1
    /\ urv' = 0
    /\ calls' = <<>>
    /\ passLog' = Append(passLog, <<fi, di + 1>>)
    /\ LET e == DecodeErr(CurFile.docs[di + 1]) IN
       IF e = ""
       THEN pc' = "resolve" /\ UNCHANGED <<fileErrs, failed, errs>>
       ELSE /\ pc' = "files"
            /\ fileErrs' = Append(fileErrs, DocErr(fi, di', e, "decode"))
            /\ failed' = failed \cup {<<fi, di'>>}
            /\ errs' = Append(errs, AggregateErr(fileErrs'))
    /\ UNCHANGED <<Conc, Apps, fs, config, step, result, attempt, lastErr, fi, delegate, cacheValid,
                   CredLocals, Server, ctxDone, faults, runs, LoopHistory, issued,
                   stepOK, errStep, credRuns, secretWrites>>

(* Mutant: the next document is read while the calls of the last one are
   still under way. *)
DecodeOverlapping ==
    /\ pc \in {"read", "create", "get", "update"}
    /\ di + 1 <= Len(CurFile.docs)
    /\ ~CurFile.docs[di + 1].blank
    /\ di' = di + 1
    /\ urv' = 0
    /\ calls' = <<>>
    /\ passLog' = Append(passLog, <<fi, di + 1>>)
    /\ LET e == DecodeErr(CurFile.docs[di + 1]) IN
       IF e = ""
       THEN pc' = "resolve" /\ UNCHANGED <<fileErrs, failed>>
       ELSE Finish(e, "decode")
    /\ UNCHANGED <<Conc, Apps, fs, config, step, result, attempt, lastErr, fi, errs, delegate, cacheValid,
                   CredLocals, Server, ctxDone, faults, runs, LoopHistory, issued,
                   stepOK, errStep, credRuns, secretWrites>>

(* d.Read() yields a document and createResource decodes it. *)
Decode ==
    /\ pc = "read"
    /\ di + 1 <= Len(CurFile.docs)
    /\ ~CurFile.docs[di + 1].blank
    /\ di' = di + 1
    /\ urv' = 0
    /\ calls' = <<>>
    /\ passLog' = Append(passLog, <<fi, di + 1>>)
    /\ LET e == DecodeErr(CurFile.docs[di + 1]) IN
       IF e = ""
       THEN pc' = "resolve" /\ UNCHANGED <<fileErrs, failed>>
       ELSE Finish(e, "decode")
    /\ UNCHANGED <<Conc, Apps, fs, config, step, result, attempt, lastErr, fi, errs, delegate, cacheValid,
                   CredLocals, Server, ctxDone, faults, runs, LoopHistory, issued,
                   stepOK, errStep, credRuns, secretWrites>>

(* mapper.RESTMapping(gvk.GroupKind(), gvk.Version). *)
Resolve ==
    /\ pc = "resolve"
    /\ LET m == RESTMapping(CurDoc.kind) IN
       /\ delegate' = m.delegate
       /\ cacheValid' = m.cacheValid
       /\ calls' = Append(calls, [verb |-> "resolve",
                                  status |-> IF m.found THEN "ok" ELSE "NoMatch"])
       /\ di' = di
       /\ IF m.found
          THEN pc' = "create" /\ UNCHANGED <<fileErrs, failed>>
          ELSE Finish("mapping", "NoMatch")
    /\ UNCHANGED <<Conc, Apps, fs, config, step, result, attempt, lastErr, fi, errs, urv, CredLocals,
                   Server, ctxDone, faults, runs, passLog, LoopHistory, issued, stepOK,
                   errStep, credRuns, secretWrites>>

(* Mutant: on AlreadyExists the update is sent without the get. *)
AfterCreateSkipGet(status) ==
    CASE status = "ok" -> [pc |-> "read", why |-> ""]
      [] status = "AlreadyExists" -> [pc |-> "update", why |-> ""]
      [] OTHER -> [pc |-> "read", why |-> "create"]

(* Mutant: an object that is already there fails the document. *)
AfterCreateNoUpsert(status) ==
    CASE status = "ok" -> [pc |-> "read", why |-> ""]
      [] OTHER -> [pc |-> "read", why |-> "create"]

(* Mutant: an object that is already there is left as it is. *)
AfterCreateKeepsExisting(status) ==
    CASE status \in {"ok", "AlreadyExists"} -> [pc |-> "read", why |-> ""]
      [] OTHER -> [pc |-> "read", why |-> "create"]

(* Mutant: any error of Create is followed by the get. *)
AfterCreateAlwaysGet(status) ==
    CASE status = "ok" -> [pc |-> "read", why |-> ""]
      [] OTHER -> [pc |-> "get", why |-> ""]

(* Where createResource goes after Create answered. *)
AfterCreate(status) ==
    CASE status = "ok" -> [pc |-> "read", why |-> ""]
      [] status = "AlreadyExists" -> [pc |-> "get", why |-> ""]
      [] OTHER -> [pc |-> "read", why |-> "create"]

(* client.Resource(m.Resource).Namespace(ns).Create(ctx, u, ...). *)
Create ==
    /\ pc = "create"
    /\ \E o \in CallOutcomes :
        LET r == ServerCreate(objects, CurId, Manifest(CurDoc))
            status == IF o = "sent" THEN Answer(CurDoc.kind, r.status) ELSE o
            to == AfterCreate(status)
        IN /\ faults' = FaultsAfter(o)
           /\ objects' = IF o = "sent" /\ Served(CurDoc.kind) THEN r.objs ELSE objects
           /\ calls' = Append(calls, [verb |-> "create", status |-> status])
           /\ di' = di
           /\ IF to.pc = "read"
              THEN Finish(to.why, status)
              ELSE pc' = to.pc /\ UNCHANGED <<fileErrs, failed>>
    /\ issued' = issued \cup {step}
    /\ UNCHANGED <<Conc, Apps, fs, config, step, result, attempt, lastErr, fi, errs, urv, delegate,
                   cacheValid, CredLocals, catalog, tokenSecret, kubeSecret, ctxDone,
                   runs, passLog, LoopHistory, stepOK, errStep, credRuns, secretWrites>>

(* Mutant: the resourceVersion of the existing object is not copied. *)
ResourceVersionNotCopied(existingRv) == 0

(* u.SetResourceVersion(existing.GetResourceVersion()). *)
CopyResourceVersion(existingRv) == existingRv

(* client.Resource(m.Resource).Namespace(ns).Get(ctx, u.GetName(), ...). *)
Get ==
    /\ pc = "get"
    /\ \E o \in CallOutcomes :
        LET r == ServerGet(objects, CurId)
            status == IF o = "sent" THEN Answer(CurDoc.kind, r.status) ELSE o
        IN /\ faults' = FaultsAfter(o)
           /\ calls' = Append(calls, [verb |-> "get", status |-> status])
           /\ di' = di
           /\ IF status = "ok"
              THEN /\ pc' = "update"
                   /\ urv' = CopyResourceVersion(r.rv)
                   /\ UNCHANGED <<fileErrs, failed>>
              ELSE Finish("get", status) /\ UNCHANGED urv
    /\ issued' = issued \cup {step}
    /\ UNCHANGED <<Conc, Apps, fs, config, step, result, attempt, lastErr, fi, errs, delegate, cacheValid,
                   CredLocals, Server, ctxDone, runs, passLog, LoopHistory, stepOK,
                   errStep, credRuns, secretWrites>>

(* client.Resource(m.Resource).Namespace(ns).Update(ctx, u, ...). *)
Update ==
    /\ pc = "update"
    /\ \E o \in CallOutcomes :
        LET r == ServerUpdate(objects, CurId, urv, Manifest(CurDoc))
            status == IF o = "sent" THEN Answer(CurDoc.kind, r.status) ELSE o
        IN /\ faults' = FaultsAfter(o)
           /\ objects' = IF o = "sent" /\ Served(CurDoc.kind) THEN r.objs ELSE objects
           /\ calls' = Append(calls, [verb |-> "update", status |-> status])
           /\ di' = di
           /\ Finish(IF status = "ok" THEN "" ELSE "update", status)
    /\ issued' = issued \cup {step}
    /\ UNCHANGED <<Conc, Apps, fs, config, step, result, attempt, lastErr, fi, errs, urv, delegate,
                   cacheValid, CredLocals, catalog, tokenSecret, kubeSecret, ctxDone,
                   runs, passLog, LoopHistory, stepOK, errStep, credRuns, secretWrites>>

(* Mutant: a failed pass does not invalidate the discovery cache. *)
PassOutcomeNoInvalidate(e) == [done |-> e = <<>>, invalidate |-> FALSE]

(* Mutant: the condition reports done whatever the pass returned. *)
PassOutcomeAlwaysDone(e) == [done |-> TRUE, invalidate |-> e # <<>>]

(* What the poll's condition returns for a pass that ended with the errors e:
   done, or not done after invalidating the discovery cache. *)
PassOutcome(e) == [done |-> e = <<>>, invalidate |-> e # <<>>]

(* Bootstrap's return with the error of step s. *)
ReturnError(s) ==
    LET r == OnStepError(s) IN
    /\ pc' = r.pc
    /\ result' = r.result
    /\ step' = r.step
    /\ errStep' = r.errStep

(* createResourcesFromFS returns utilerrors.NewAggregate(errs) and the
   condition ends: on an error lastErr is set, the cache invalidated and the
   poll goes on; on nil the poll and bootstrapFS return nil and Bootstrap
   moves to its next step. *)
PassEnd ==
    /\ pc = "files"
    /\ fi = Len(Files)
    /\ passes' = passes + 1
    /\ LET o == PassOutcome(errs) IN
       /\ cacheValid' = IF o.invalidate THEN FALSE ELSE cacheValid
       /\ invalidations' = IF o.invalidate THEN invalidations + 1 ELSE invalidations
       /\ IF o.done
          THEN /\ pc' = "bootstrap"
               /\ step' = StepAfter(step)
               /\ stepOK' = stepOK \cup {step}
               /\ UNCHANGED lastErr
          ELSE /\ pc' = "wait"
               /\ lastErr' = errs
               /\ UNCHANGED <<step, stepOK>>
    /\ UNCHANGED <<Conc, Apps, fs, config, result, attempt, fi, errs, di, fileErrs, urv, delegate,
                   CredLocals, Server, ctxDone, faults, runs, PassHistory, issued,
                   errStep, credRuns, secretWrites>>

(* Mutant: the poll gives up at the tick after a failed pass. *)
PollTickGiveUp ==
    /\ pc = "wait"
    /\ ~ctxDone
    /\ ReturnError(step)
    /\ UNCHANGED <<Conc, Apps, fs, config, FSLocals, delegate, cacheValid, CredLocals, Server,
                   ctxDone, faults, runs, PassHistory, LoopHistory, issued, stepOK,
                   credRuns, secretWrites>>

(* Mutant: the timer's tick calls the condition without looking at the context. *)
PollTickIgnoresCancel ==
    /\ pc = "wait"
    /\ pc' = "cond"
    /\ UNCHANGED <<Conc, Apps, fs, config, step, result, FSLocals, delegate, cacheValid, CredLocals,
                   Server, ctxDone, faults, runs, PassHistory, LoopHistory, issued,
                   stepOK, errStep, credRuns, secretWrites>>

(* The poll's timer fires with the context alive: the condition is called again. *)
PollTick ==
    /\ pc = "wait"
    /\ ~ctxDone
    /\ pc' = "cond"
    /\ UNCHANGED <<Conc, Apps, fs, config, step, result, FSLocals, delegate, cacheValid, CredLocals,
                   Server, ctxDone, faults, runs, PassHistory, LoopHistory, issued,
                   stepOK, errStep, credRuns, secretWrites>>

(* Mutant: a cancelled retry loop removes what the run has written. *)
PollCancelledRollsBack ==
    /\ pc = "wait"
    /\ ctxDone
    /\ ReturnError(step)
    /\ objects' = [id \in ObjIds |-> NoObject]
    /\ UNCHANGED <<Conc, Apps, fs, config, FSLocals, delegate, cacheValid, CredLocals, catalog,
                   tokenSecret, kubeSecret, ctxDone, faults, runs, PassHistory,
                   LoopHistory, issued, stepOK, credRuns, secretWrites>>

(* The poll finds the context done: PollUntilContextCancel returns ctx.Err(),
   bootstrapFS wraps it with lastErr and Bootstrap returns the step's error. *)
PollCancelled ==
    /\ pc = "wait"
    /\ ctxDone
    /\ ReturnError(step)
    /\ UNCHANGED <<Conc, Apps, fs, config, FSLocals, delegate, cacheValid, CredLocals, Server,
                   ctxDone, faults, runs, PassHistory, LoopHistory, issued, stepOK,
                   credRuns, secretWrites>>

----------------------------------------------------------------------------
(* createControllerKubeconfigSecret. *)

Host == "https://kcp.example"
OtherHost == "https://kcp.example/clusters/root:providers"
Hosts == {Host, OtherHost}
Tokens == {"tok1"}
CAs == {"", "ca1"}

NoToken == [exists |-> FALSE, token |-> "", ca |-> ""]
NoSecret == [exists |-> FALSE, rv |-> 0, data |-> <<>>]

(* Mutant: the context names a cluster the config does not hold. *)
KubeconfigOtherCluster(host, ca, token) ==
    [kind |-> "Config",
     apiVersion |-> "v1",
     clusters |-> [n \in {"workspace"} |-> [server |-> host, caData |-> ca]],
     authInfos |-> [n \in {"controller"} |-> [token |-> token]],
     contexts |-> [n \in {"workspace"} |-> [cluster |-> "default",
                                            authInfo |-> "controller"]],
     currentContext |-> "workspace"]

(* The clientcmdapi.Config literal. *)
Kubeconfig(host, ca, token) ==
    [kind |-> "Config",
     apiVersion |-> "v1",
     clusters |-> [n \in {"workspace"} |-> [server |-> host, caData |-> ca]],
     authInfos |-> [n \in {"controller"} |-> [token |-> token]],
     contexts |-> [n \in {"workspace"} |-> [cluster |-> "workspace",
                                            authInfo |-> "controller"]],
     currentContext |-> "workspace"]

(* yaml.Marshal(kubeconfig): the JSON form of the clientcmdapi types, written
   as YAML.  A struct is a map from the names of its json tags to the encoded
   fields; a field tagged omitempty is left out when it is empty; a []byte is
   written as its base64 text; the maps of clusters, users and contexts stay
   maps keyed by name. *)
EmptyMap == [k \in {} |-> ""]
Base64(bytes) == <<"base64", bytes>>
OmitEmpty(key, value, encoded) == IF value = "" THEN EmptyMap ELSE key :> encoded

MarshalCluster(c) ==
    ("server" :> c.server)
    @@ OmitEmpty("certificate-authority-data", c.caData, Base64(c.caData))
MarshalAuthInfo(a) == OmitEmpty("token", a.token, a.token)
MarshalContext(c) == ("cluster" :> c.cluster) @@ ("user" :> c.authInfo)

Marshal(kc) ==
    OmitEmpty("kind", kc.kind, kc.kind)
    @@ OmitEmpty("apiVersion", kc.apiVersion, kc.apiVersion)
    @@ ("preferences" :> EmptyMap)
    @@ ("clusters" :> [n \in DOMAIN kc.clusters |-> MarshalCluster(kc.clusters[n])])
    @@ ("users" :> [n \in DOMAIN kc.authInfos |-> MarshalAuthInfo(kc.authInfos[n])])
    @@ ("contexts" :> [n \in DOMAIN kc.contexts |-> MarshalContext(kc.contexts[n])])
    @@ ("current-context" :> kc.currentContext)

(* Mutant: a token secret without a token counts as ready. *)
PollResultAcceptsEmpty(status, token) ==
    CASE status = "NotFound" -> "again"
      [] status # "ok" -> "error"
      [] OTHER -> "done"

(* Mutant: any error of the get is waited out like NotFound. *)
PollResultRetriesErrors(status, token) ==
    CASE status # "ok" -> "again"
      [] token = "" -> "again"
      [] OTHER -> "done"

(* What the poll's condition makes of one Get of the token secret. *)
PollResult(status, token) ==
    CASE status = "NotFound" -> "again"
      [] status # "ok" -> "error"
      [] token = "" -> "again"
      [] OTHER -> "done"

(* Mutant: the condition creates the token secret when it is not found. *)
CredPollCreatesToken ==
    /\ pc = "credpoll"
    /\ \E o \in CallOutcomes :
        LET status == IF o # "sent" THEN o
                      ELSE IF tokenSecret.exists THEN "ok" ELSE "NotFound"
            res == PollResult(status, tokenSecret.token)
        IN /\ faults' = FaultsAfter(o)
           /\ tokenSecret' = IF status = "NotFound"
                             THEN [exists |-> TRUE, token |-> "", ca |-> ""]
                             ELSE tokenSecret
           /\ CASE res = "done" ->
                    /\ pc' = "credcreate"
                    /\ polled' = tokenSecret
                    /\ UNCHANGED <<step, result, errStep>>
                [] res = "again" ->
                    /\ pc' = "credwait"
                    /\ UNCHANGED <<polled, step, result, errStep>>
                [] OTHER ->
                    /\ ReturnError(step)
                    /\ UNCHANGED polled
    /\ issued' = issued \cup {step}
    /\ UNCHANGED <<Conc, Apps, fs, config, FSLocals, delegate, cacheValid, elapsed, secretRV, objects,
                   catalog, kubeSecret, ctxDone, runs, PassHistory, LoopHistory, stepOK,
                   credRuns, secretWrites>>

(* Mutant: a token secret without a CA certificate is waited for. *)
CredPollWaitsForCA ==
    /\ pc = "credpoll"
    /\ \E o \in CallOutcomes :
        LET status == IF o # "sent" THEN o
                      ELSE IF tokenSecret.exists THEN "ok" ELSE "NotFound"
            res == IF status = "ok" /\ tokenSecret.ca = "" THEN "again"
                   ELSE PollResult(status, tokenSecret.token)
        IN /\ faults' = FaultsAfter(o)
           /\ CASE res = "done" ->
                    /\ pc' = "credcreate"
                    /\ polled' = tokenSecret
                    /\ UNCHANGED <<step, result, errStep>>
                [] res = "again" ->
                    /\ pc' = "credwait"
                    /\ UNCHANGED <<polled, step, result, errStep>>
                [] OTHER ->
                    /\ ReturnError(step)
                    /\ UNCHANGED polled
    /\ issued' = issued \cup {step}
    /\ UNCHANGED <<Conc, Apps, fs, config, FSLocals, delegate, cacheValid, elapsed, secretRV, Server,
                   ctxDone, runs, PassHistory, LoopHistory, stepOK, credRuns,
                   secretWrites>>

(* The condition of the credential wait: Get of default/wildwest-controller-token. *)
CredPoll ==
    /\ pc = "credpoll"
    /\ \E o \in CallOutcomes :
        LET status == IF o # "sent" THEN o
                      ELSE IF tokenSecret.exists THEN "ok" ELSE "NotFound"
            res == PollResult(status, tokenSecret.token)
        IN /\ faults' = FaultsAfter(o)
           /\ CASE res = "done" ->
                    /\ pc' = "credcreate"
                    /\ polled' = tokenSecret
                    /\ UNCHANGED <<step, result, errStep>>
                [] res = "again" ->
                    /\ pc' = "credwait"
                    /\ UNCHANGED <<polled, step, result, errStep>>
                [] OTHER ->
                    /\ ReturnError(step)
                    /\ UNCHANGED polled
    /\ issued' = issued \cup {step}
    /\ UNCHANGED <<Conc, Apps, fs, config, FSLocals, delegate, cacheValid, elapsed, secretRV, Server,
                   ctxDone, runs, PassHistory, LoopHistory, stepOK, credRuns,
                   secretWrites>>

(* Mutant: when its deadline is reached the credential wait starts over. *)
CredTickRestarts ==
    /\ pc = "credwait"
    /\ ~ctxDone
    /\ elapsed' = IF elapsed + 1 >= PollTimeoutSeconds THEN 0 ELSE elapsed + 1
    /\ pc' = "credpoll"
    /\ UNCHANGED <<step, result, errStep>>
    /\ UNCHANGED <<Conc, Apps, fs, config, FSLocals, delegate, cacheValid, polled, secretRV, Server,
                   ctxDone, faults, runs, PassHistory, LoopHistory, issued, stepOK,
                   credRuns, secretWrites>>

(* One second of the credential wait passes with the caller's context alive:
   the condition is called again unless the wait's own deadline is reached. *)
CredTick ==
    /\ pc = "credwait"
    /\ ~ctxDone
    /\ elapsed' = elapsed + 1
    /\ IF elapsed + 1 >= PollTimeoutSeconds
       THEN ReturnError(step)
       ELSE pc' = "credpoll" /\ UNCHANGED <<step, result, errStep>>
    /\ UNCHANGED <<Conc, Apps, fs, config, FSLocals, delegate, cacheValid, polled, secretRV, Server,
                   ctxDone, faults, runs, PassHistory, LoopHistory, issued, stepOK,
                   credRuns, secretWrites>>

(* The credential wait finds the caller's context done. *)
CredCancelled ==
    /\ pc = "credwait"
    /\ ctxDone
    /\ ReturnError(step)
    /\ UNCHANGED <<Conc, Apps, fs, config, FSLocals, delegate, cacheValid, CredLocals, Server,
                   ctxDone, faults, runs, PassHistory, LoopHistory, issued, stepOK,
                   credRuns, secretWrites>>

(* The bytes stored under the data key "kubeconfig". *)
SecretData == [kubeconfig |-> Marshal(Kubeconfig(config.host, polled.ca, polled.token))]

(* Bootstrap's return after the credential step returned nil. *)
ReturnOK ==
    LET r == OnAllDone(step) IN
    /\ pc' = r.pc
    /\ result' = r.result
    /\ step' = r.step
    /\ errStep' = r.errStep
    /\ stepOK' = stepOK \cup {step}

(* Secrets("default").Create of wildwest-controller-kubeconfig. *)
CredCreate ==
    /\ pc = "credcreate"
    /\ \E o \in CallOutcomes :
        LET status == IF o # "sent" THEN o
                      ELSE IF kubeSecret.exists THEN "AlreadyExists" ELSE "ok"
        IN /\ faults' = FaultsAfter(o)
           /\ CASE status = "ok" ->
                    /\ kubeSecret' = [exists |-> TRUE, rv |-> 1, data |-> SecretData]
                    /\ secretWrites' = secretWrites + 1
                    /\ ReturnOK
                [] status = "AlreadyExists" ->
                    /\ pc' = "credget"
                    /\ UNCHANGED <<kubeSecret, secretWrites, step, result, errStep, stepOK>>
                [] OTHER ->
                    /\ ReturnError(step)
                    /\ UNCHANGED <<kubeSecret, secretWrites, stepOK>>
    /\ issued' = issued \cup {step}
    /\ UNCHANGED <<Conc, Apps, fs, config, FSLocals, delegate, cacheValid, CredLocals, objects,
                   catalog, tokenSecret, ctxDone, runs, PassHistory, LoopHistory,
                   credRuns>>

(* Mutant: the update is sent without the existing secret's resourceVersion. *)
SecretVersionNotCopied(existingRv) == 0

(* secret.ResourceVersion = existing.ResourceVersion. *)
CopySecretVersion(existingRv) == existingRv

(* Secrets("default").Get of the existing kubeconfig secret. *)
CredGet ==
    /\ pc = "credget"
    /\ \E o \in CallOutcomes :
        LET status == IF o # "sent" THEN o
                      ELSE IF kubeSecret.exists THEN "ok" ELSE "NotFound"
        IN /\ faults' = FaultsAfter(o)
           /\ IF status = "ok"
              THEN /\ pc' = "credupdate"
                   /\ secretRV' = CopySecretVersion(kubeSecret.rv)
                   /\ UNCHANGED <<step, result, errStep>>
              ELSE /\ ReturnError(step)
                   /\ UNCHANGED secretRV
    /\ issued' = issued \cup {step}
    /\ UNCHANGED <<Conc, Apps, fs, config, FSLocals, delegate, cacheValid, elapsed, polled, Server,
                   ctxDone, runs, PassHistory, LoopHistory, stepOK, credRuns,
                   secretWrites>>

(* Secrets("default").Update with the resourceVersion just read. *)
CredUpdate ==
    /\ pc = "credupdate"
    /\ \E o \in CallOutcomes :
        LET status == IF o # "sent" THEN o
                      ELSE IF ~kubeSecret.exists THEN "NotFound"
                      ELSE IF secretRV # kubeSecret.rv THEN "Conflict" ELSE "ok"
        IN /\ faults' = FaultsAfter(o)
           /\ IF status = "ok"
              THEN /\ kubeSecret' = [exists |-> TRUE, rv |-> secretRV + 1,
                                     data |-> SecretData]
                   /\ secretWrites' = secretWrites + 1
                   /\ ReturnOK
              ELSE /\ ReturnError(step)
                   /\ UNCHANGED <<kubeSecret, secretWrites, stepOK>>
    /\ issued' = issued \cup {step}
    /\ UNCHANGED <<Conc, Apps, fs, config, FSLocals, delegate, cacheValid, CredLocals, objects,
                   catalog, tokenSecret, ctxDone, runs, PassHistory, LoopHistory,
                   credRuns>>

----------------------------------------------------------------------------
(* The environment. *)

(* The caller cancels the context, or its deadline passes. *)
Cancel ==
    /\ result = "running"
    /\ ~ctxDone
    /\ ctxDone' = TRUE
    /\ UNCHANGED <<Conc, Apps, fs, config, pc, step, result, FSLocals, delegate, cacheValid,
                   CredLocals, Server, faults, runs, PassHistory, LoopHistory, issued,
                   stepOK, errStep, credRuns, secretWrites>>

(* The API server starts to serve a kind.  Nothing resolves a kind after the
   last manifest set. *)
RegisterType ==
    /\ result = "running"
    /\ step \in SetSteps
    /\ \E k \in Kinds \ catalog : catalog' = catalog \cup {k}
    /\ UNCHANGED <<Conc, Apps, fs, config, pc, step, result, FSLocals, delegate, cacheValid,
                   CredLocals, objects, tokenSecret, kubeSecret, ctxDone, faults, runs,
                   PassHistory, LoopHistory, issued, stepOK, errStep, credRuns,
                   secretWrites>>

(* The token controller creates the token secret, or fills in its token and
   CA certificate.  Nothing reads the secret before the credential step. *)
TokenController ==
    /\ result = "running"
    /\ step = CREDENTIAL
    /\ \/ /\ ~tokenSecret.exists
          /\ tokenSecret' = [exists |-> TRUE, token |-> "", ca |-> ""]
       \/ /\ tokenSecret.exists
          /\ tokenSecret.token = ""
          /\ \E t \in Tokens, c \in CAs :
                tokenSecret' = [exists |-> TRUE, token |-> t, ca |-> c]
    /\ UNCHANGED <<Conc, Apps, fs, config, pc, step, result, FSLocals, delegate, cacheValid,
                   CredLocals, objects, catalog, kubeSecret, ctxDone, faults, runs,
                   PassHistory, LoopHistory, issued, stepOK, errStep, credRuns,
                   secretWrites>>

(* After a run that succeeded the bootstrap binary is run again against the
   same cluster, as a new process with a new context and with a config that
   names the cluster by the other URL, so that the kubeconfig it synthesizes
   differs from the stored one. *)
Rerun ==
    /\ pc = "returned"
    /\ result = "ok"
    /\ runs < MaxRuns
    /\ runs' = runs + 1
    /\ pc' = "start"
    /\ step' = KCP
    /\ result' = "running"
    /\ attempt' = 0
    /\ lastErr' = <<>>
    /\ fi' = 0
    /\ errs' = <<>>
    /\ di' = 0
    /\ fileErrs' = <<>>
    /\ urv' = 0
    /\ delegate' = NoDelegate
    /\ cacheValid' = FALSE
    /\ elapsed' = 0
    /\ polled' = NoToken
    /\ secretRV' = 0
    /\ ctxDone' = FALSE
    /\ calls' = <<>>
    /\ passLog' = <<>>
    /\ failed' = {}
    /\ passes' = 0
    /\ invalidations' = 0
    /\ issued' = {}
    /\ stepOK' = {}
    /\ errStep' = 0
    /\ credRuns' = 0
    /\ secretWrites' = 0
    /\ config' = [config EXCEPT !.host = CHOOSE h \in Hosts : h # config.host]
    /\ UNCHANGED <<Conc, Apps, fs, Server, faults>>

----------------------------------------------------------------------------

(* The inputs: one manifest set has any of the shapes and the others are clean.
   The server does not serve that set's kind yet (RegisterType may add it before
   anything is resolved), the token secret is not there yet (TokenController
   makes it) and the network may fail MaxFaults calls, or none. *)
Inputs ==
    /\ \E focus \in SetSteps :
        /\ \E c \in ManifestChoices(KindOf[focus]) :
              fs = [s \in SetSteps |-> IF s = focus THEN c ELSE CleanSet(KindOf[s])]
        /\ catalog = Kinds \ {KindOf[focus]}
    /\ config = [host |-> Host, valid |-> TRUE]
    /\ tokenSecret = NoToken
    /\ faults \in {0, MaxFaults}

(* A config no client can be built from. *)
BadConfigInputs ==
    /\ fs = [s \in SetSteps |-> CleanSet(KindOf[s])]
    /\ catalog = Kinds
    /\ config = [host |-> Host, valid |-> FALSE]
    /\ tokenSecret = NoToken
    /\ faults = 0

(* A process at the start of its retry loop: the poll calls the condition at once. *)
Procs == {"p1", "p2"}
NewProc == [pc |-> "cond", pos |-> 0, urv |-> 0, errs |-> <<>>]

(* The state a run starts in. *)
(* The Cowboy, the reconciler and the portal before anything has happened:
   no Cowboy on the server, the reconciler idle, the component as constructed
   (loading is true, the dialog closed, the inputs empty), nothing in flight. *)
NoCowboy == [exists |-> FALSE, intent |-> "", result |-> <<>>, rv |-> 0]
IdleReconciler == [pc |-> "idle", obj |-> NoCowboy]
NoReconciles ==
    [runs |-> 0, updates |-> 0, events |-> 0, last |-> "none", cause |-> "",
     seen |-> NoCowboy, errors |-> 0, changes |-> 0]
NewComponent ==
    [started |-> FALSE, indicator |-> FALSE,
     loading |-> TRUE, cowboys |-> {}, namespaces |-> <<>>, showAddDialog |-> FALSE,
     newCowboyName |-> <<>>, newCowboyNamespace |-> <<>>, newCowboyIntent |-> <<>>,
     alerts |-> <<>>, inputs |-> 0, confirms |-> 0]
NoTraffic == [pending |-> {}, store |-> {}, sent |-> 0, failedLists |-> 0, successes |-> 0]
AppsStart ==
    /\ cowboy = NoCowboy
    /\ rec = IdleReconciler
    /\ recLog = NoReconciles
    /\ portal = NewComponent
    /\ net = NoTraffic

StartState ==
    /\ AppsStart
    /\ pc = "start"
    /\ step = KCP
    /\ result = "running"
    /\ attempt = 0
    /\ lastErr = <<>>
    /\ fi = 0
    /\ errs = <<>>
    /\ di = 0
    /\ fileErrs = <<>>
    /\ urv = 0
    /\ delegate = NoDelegate
    /\ cacheValid = FALSE
    /\ elapsed = 0
    /\ polled = NoToken
    /\ secretRV = 0
    /\ kubeSecret = NoSecret
    /\ ctxDone = FALSE
    /\ runs = 1
    /\ calls = <<>>
    /\ passLog = <<>>
    /\ failed = {}
    /\ passes = 0
    /\ invalidations = 0
    /\ issued = {}
    /\ stepOK = {}
    /\ errStep = 0
    /\ credRuns = 0
    /\ secretWrites = 0
    /\ procs = [p \in Procs |-> NewProc]
    /\ edits = 0

(* The first run finds none of the objects on the server. *)
Init ==
    /\ Inputs \/ BadConfigInputs
    /\ StartState
    /\ objects = [id \in ObjIds |-> NoObject]

Next ==
    \/ StartRun
    \/ StartStep
    \/ PassBegin
    \/ NextFile
    \/ FileEnd
    \/ SkipBlank
    \/ Decode
    \/ Resolve
    \/ Create
    \/ Get
    \/ Update
    \/ PassEnd
    \/ PollTick
    \/ PollCancelled
    \/ CredPoll
    \/ CredTick
    \/ CredCancelled
    \/ CredCreate
    \/ CredGet
    \/ CredUpdate
    \/ Cancel
    \/ RegisterType
    \/ TokenController
    \/ Rerun

Spec == Init /\ [][Next]_vars

(* The steps of the bootstrap process.  The process is one goroutine that is
   always scheduled: its API calls return and its timers fire. *)
Proc ==
    \/ StartRun
    \/ StartStep
    \/ PassBegin
    \/ NextFile
    \/ FileEnd
    \/ SkipBlank
    \/ Decode
    \/ Resolve
    \/ Create
    \/ Get
    \/ Update
    \/ PassEnd
    \/ PollTick
    \/ PollCancelled
    \/ CredPoll
    \/ CredTick
    \/ CredCancelled
    \/ CredCreate
    \/ CredGet
    \/ CredUpdate

FairSpec == Spec /\ WF_vars(Proc)

----------------------------------------------------------------------------
(* Properties. *)

Steps == SetSteps \cup {CREDENTIAL}
DocAt(files, p) == files[p[1]].docs[p[2]]
DocId(doc) == <<doc.kind, doc.name>>

(* Every document of manifest set s has its object on the server, with the
   document's content. *)
SetApplied(s) ==
    \A p \in AppliedDocs(fs[s]) :
        LET doc == DocAt(fs[s], p) IN
        /\ GoodDoc(doc)
        /\ objects[DocId(doc)].exists
        /\ objects[DocId(doc)].body = doc.body

(* The retry loop of the step before the current one has just returned nil. *)
LoopReturnedOK == pc = "bootstrap" /\ step > KCP

(* C1: Bootstrap takes its steps in the order kcp, provider, controller,
   credential; a step has issued an API call only if the retry loop of every
   earlier step has returned success, and a retry loop returns success only
   after a pass in which no document failed. *)
C1_StepOrder ==
    /\ step \in Steps
    /\ \A s \in issued : \A e \in Steps : e < s => e \in stepOK
    /\ \A s \in stepOK : \A e \in Steps : e < s => e \in stepOK
    /\ \A s \in issued : s <= step
    /\ LoopReturnedOK => errs = <<>> /\ failed = {} /\ (step - 1) \in stepOK

C1_Witness ==
    /\ pc = "credcreate"
    /\ issued = Steps
    /\ stepOK = SetSteps

(* C2: once a step has returned an error, Bootstrap has returned an error, at
   that step, and no later step has issued an API call. *)
C2_AbortOnError ==
    /\ errStep # 0 =>
        /\ pc = "returned"
        /\ result = "error"
        /\ step = errStep
        /\ errStep \notin stepOK
        /\ \A s \in issued : s <= errStep
    /\ result = "error" => pc = "returned"

C2_Witness ==
    /\ errStep = PROVIDER
    /\ issued = {KCP, PROVIDER}
    /\ pc = "returned"

(* C3: when Bootstrap has returned success, the three manifest sets have each
   returned from a pass without errors, with every document's object on the
   server, the credential materializer has run once, after them, and has
   written the secret once; the secret exists and holds the key kubeconfig. *)
C3_SuccessMeansAll ==
    result = "ok" =>
        /\ pc = "returned"
        /\ stepOK = Steps
        /\ \A s \in SetSteps : SetApplied(s)
        /\ credRuns = 1
        /\ secretWrites = 1
        /\ kubeSecret.exists
        /\ DOMAIN kubeSecret.data = {"kubeconfig"}

C3_Witness ==
    /\ result = "ok"
    /\ runs = 2
    /\ kubeSecret.rv = 2

(* createResource is at work on document di of file fi. *)
InApply == pc \in {"resolve", "create", "get", "update"}
(* createResourcesFromFS is at work. *)
InPass == pc \in {"files", "read"} \/ InApply

ApplyOrder == <<"resolve", "create", "get", "update">>

(* C4: the calls of one apply are the resolution, one create, one get and one
   update, in that order and each at most once; a get is issued only after
   create answered AlreadyExists; and an apply whose create answered
   AlreadyExists ends only after its get, and after its update unless the get
   failed. *)
C4_UpsertCalls ==
    /\ Len(calls) <= Len(ApplyOrder)
    /\ \A i \in 1..Len(calls) : calls[i].verb = ApplyOrder[i]
    /\ Len(calls) >= 3 => calls[2].status = "AlreadyExists"
    /\ (Len(calls) >= 2 /\ calls[2].status = "AlreadyExists" /\ ~InApply) =>
          /\ Len(calls) >= 3
          /\ calls[3].status = "ok" => Len(calls) = 4
          /\ calls[3].status # "ok" => Len(calls) = 3

C4_Witness ==
    /\ pc = "read"
    /\ Len(calls) = 4
    /\ calls[2].status = "AlreadyExists"
    /\ calls[3].status = "ok"
    /\ calls[4].status = "ok"

(* The reader's next document is well-formed YAML without a kind. *)
NoKindNext ==
    /\ pc = "read"
    /\ di + 1 <= Len(CurFile.docs)
    /\ ~CurFile.docs[di + 1].blank
    /\ CurFile.docs[di + 1].yamlOK
    /\ CurFile.docs[di + 1].kind = ""

(* C5: the apply of a document without a kind is one step that records the
   document's error and leaves createResourceFromFS at its reader: no call of
   the type resolver, no create, get or update, and the server, the mapper and
   the cache are as before.  No call is ever at hand for such a document. *)
C5_MissingKind ==
    /\ [](InApply => CurDoc.kind # "")
    /\ [][(NoKindNext /\ di' = di + 1) =>
            /\ pc' = "read"
            /\ calls' = <<>>
            /\ <<fi, di'>> \in failed'
            /\ fileErrs' = Append(fileErrs, DocErr(fi, di', "kind", "decode"))
            /\ UNCHANGED <<objects, catalog, tokenSecret, kubeSecret, delegate,
                           cacheValid, faults, issued>>]_vars

C5_Witness ==
    /\ pc = "read"
    /\ di >= 1
    /\ CurDoc.yamlOK
    /\ ~CurDoc.blank
    /\ CurDoc.kind = ""
    /\ <<fi, di>> \in failed
    /\ calls = <<>>

(* C6: a retry loop invalidates the discovery cache once after each failed
   pass, before the next pass begins, and not after the pass that succeeds:
   while pass N+1 runs there have been N passes and N invalidations, and when
   the loop returns success after N+1 passes there have been N invalidations. *)
C6_RetryCounts ==
    /\ (step \in SetSteps /\ InPass) =>
          attempt = passes + 1 /\ invalidations = passes
    /\ pc \in {"wait", "cond"} =>
          attempt = passes /\ invalidations = passes
    /\ pc = "wait" => passes >= 1 /\ ~cacheValid /\ lastErr # <<>>
    /\ LoopReturnedOK =>
          passes >= 1 /\ attempt = passes /\ invalidations = passes - 1

C6_Witness ==
    /\ LoopReturnedOK
    /\ ~ctxDone
    /\ passes = 3
    /\ invalidations = 2

(* The retry loop of the current step is running. *)
InLoop == step \in SetSteps /\ (pc \in {"cond", "wait"} \/ InPass)

(* C7: a retry loop returns an error only when the context is done, and
   success only after a pass without errors; a failed pass leads to the wait
   for the next tick and a tick with the context alive leads to the next pass,
   whatever the number of attempts; and once no apply of the set can fail any
   more, the loop returns success unless the context is cancelled. *)
C7_LoopEnds ==
    /\ [](errStep \in SetSteps => ctxDone)
    /\ [](LoopReturnedOK => errs = <<>> /\ failed = {})
    /\ [][(InPass /\ ~InPass') =>
            IF errs = <<>> THEN pc' = "bootstrap" /\ step' = step + 1
            ELSE pc' = "wait" /\ result' = "running" /\ step' = step]_vars
    /\ [][(pc = "wait" /\ ~ctxDone /\ pc' # pc) => pc' = "cond"]_vars
    /\ \A s \in SetSteps :
          (step = s /\ InLoop /\ WillSucceed) ~> (s \in stepOK \/ ctxDone)

C7_Witness ==
    /\ LoopReturnedOK
    /\ ~ctxDone
    /\ attempt = MaxAttempts + 1

Range(seq) == {seq[i] : i \in DOMAIN seq}
(* The document errors a list of file errors carries. *)
DocErrsOf(fileErrList) == UNION {Range(e.agg) : e \in Range(fileErrList)}
(* Every document error the process holds. *)
Recorded == Range(fileErrs) \cup DocErrsOf(errs) \cup DocErrsOf(lastErr)
(* The manifest set of the pass that ran last. *)
LastFiles == IF LoopReturnedOK THEN fs[step - 1] ELSE Files
(* The apply of document p of the current pass has ended without an error. *)
AppliedOK(p) ==
    /\ p \in Range(passLog)
    /\ p \notin failed
    /\ ~(InApply /\ p = <<fi, di>>)

(* C8: applying a manifest set over what an earlier pass or an earlier run
   left never fails on that earlier result (no conflict, no not-found, no
   already-exists error); in a second run the only document errors are those
   of the network or of a cancelled context, so a second application that the
   outside does not disturb returns no error; and after every pass each
   document applied without error has its object on the server with the
   document's content. *)
C8_Idempotent ==
    /\ \A e \in Recorded : e.cause \notin {"Conflict", "NotFound", "AlreadyExists"}
    /\ runs > 1 => \A e \in Recorded : e.cause \in {"fault", "ctx"}
    /\ (step \in SetSteps \/ LoopReturnedOK) =>
          \A p \in AppliedDocs(LastFiles) :
              AppliedOK(p) =>
                  /\ objects[DocId(DocAt(LastFiles, p))].exists
                  /\ objects[DocId(DocAt(LastFiles, p))].body = DocAt(LastFiles, p).body
    /\ LoopReturnedOK => SetApplied(step - 1)

C8_Witness ==
    /\ runs = 2
    /\ LoopReturnedOK
    /\ step = PROVIDER
    /\ passes = 1
    /\ objects[<<"APIExport", "a">>].rv = 2
    /\ objects[<<"APIExport", "a">>].body = 1

(* Document p comes before document q in a pass. *)
Before(p, q) == p[1] < q[1] \/ (p[1] = q[1] /\ p[2] < q[2])
(* The reader of the pass has gone past document p. *)
Passed(p) ==
    \/ p[1] < fi
    \/ p[1] = fi /\ (pc = "files" \/ p[2] <= di)

(* C9: in a pass every non-blank document of every manifest file is attempted
   once, in order, whether or not documents before it failed: the documents
   attempted so far are those the pass has gone past, none twice, and when the
   pass has ended they are all the documents of the set. *)
C9_EveryDocOnce ==
    /\ \A i, j \in 1..Len(passLog) : i < j => Before(passLog[i], passLog[j])
    /\ (step \in SetSteps /\ InPass) =>
          Range(passLog) = {p \in AppliedDocs(Files) : Passed(p)}
    /\ (pc = "wait" \/ LoopReturnedOK) => Range(passLog) = AppliedDocs(LastFiles)

C9_Witness ==
    /\ pc = "wait"
    /\ <<1, 1>> \in failed
    /\ passLog = <<<<1, 1>>, <<1, 2>>, <<2, 1>>>>

(* C10: the error a pass returns carries every document failure of the pass. *)
C10_AllFailuresReported ==
    pc = "wait" =>
        \A p \in failed : \E e \in DocErrsOf(lastErr) : <<e.f, e.d>> = p

(* The credential step has gone past its wait. *)
PastWait == pc \in {"credcreate", "credget", "credupdate"}

(* C11: the credential step goes past its wait only with the token secret of
   a poll that found a non-empty token, and a wait that is between two polls
   ends with an error only when its 30 seconds have elapsed, never earlier,
   whatever becomes of the caller's context. *)
C11_CredentialWait ==
    /\ [](PastWait => polled.exists /\ polled.token # "")
    /\ [][(pc = "credpoll" /\ pc' = "credcreate") =>
            tokenSecret.token # "" /\ polled' = tokenSecret]_vars
    /\ [][(pc = "credwait" /\ pc' = "returned") =>
            result' = "error" /\ elapsed' >= PollTimeoutSeconds]_vars

(* yaml.Unmarshal of the stored bytes into a clientcmdapi.Config: the reading
   that undoes Marshal.  A key that is absent leaves the field empty. *)
Field(m, key) == IF key \in DOMAIN m THEN m[key] ELSE ""
Unbase64(text) == IF text = "" THEN "" ELSE text[2]
Unmarshal(doc) ==
    [kind |-> Field(doc, "kind"),
     apiVersion |-> Field(doc, "apiVersion"),
     clusters |-> [n \in DOMAIN doc["clusters"] |->
                     [server |-> Field(doc["clusters"][n], "server"),
                      caData |-> Unbase64(Field(doc["clusters"][n],
                                                "certificate-authority-data"))]],
     authInfos |-> [n \in DOMAIN doc["users"] |->
                      [token |-> Field(doc["users"][n], "token")]],
     contexts |-> [n \in DOMAIN doc["contexts"] |->
                     [cluster |-> Field(doc["contexts"][n], "cluster"),
                      authInfo |-> Field(doc["contexts"][n], "user")]],
     currentContext |-> Field(doc, "current-context")]

(* The kubeconfig read back from the stored secret, and the token in it. *)
StoredKubeconfig == Unmarshal(kubeSecret.data.kubeconfig)
EmbeddedToken == StoredKubeconfig.authInfos["controller"].token

(* C12: the kubeconfig secret is written only by a step that holds the token
   secret of a poll that found a non-empty token, and a secret this run has
   written carries that token, which is not empty. *)
C12_TokenBeforeSecret ==
    /\ [](secretWrites > 0 =>
            /\ kubeSecret.exists
            /\ polled.exists
            /\ polled.token # ""
            /\ EmbeddedToken = polled.token)
    /\ [](kubeSecret.exists => EmbeddedToken # "")
    /\ [][kubeSecret' # kubeSecret =>
            /\ polled.exists
            /\ polled.token # ""
            /\ polled' = polled
            /\ secretWrites' = secretWrites + 1
            /\ EmbeddedToken' = polled.token]_vars

C12_Witness ==
    /\ result = "ok"
    /\ secretWrites = 1
    /\ elapsed >= 2
    /\ EmbeddedToken = "tok1"

(* C13: the kubeconfig read back from the stored secret has one cluster, one
   auth entry and one context, the context is the current one and names that
   cluster and that auth entry, the server is the caller's host, the CA data
   and the token are those of the polled token secret, and reading back what
   Marshal wrote gives the kubeconfig that was built. *)
C13_KubeconfigRoundTrip ==
    /\ PastWait =>
          LET built == Kubeconfig(config.host, polled.ca, polled.token) IN
          Unmarshal(Marshal(built)) = built
    /\ kubeSecret.exists =>
          LET kc == StoredKubeconfig IN
          /\ Cardinality(DOMAIN kc.clusters) = 1
          /\ Cardinality(DOMAIN kc.authInfos) = 1
          /\ Cardinality(DOMAIN kc.contexts) = 1
          /\ kc.currentContext \in DOMAIN kc.contexts
          /\ kc.contexts[kc.currentContext].cluster \in DOMAIN kc.clusters
          /\ kc.contexts[kc.currentContext].authInfo \in DOMAIN kc.authInfos
          /\ LET ctx == kc.contexts[kc.currentContext] IN
             /\ secretWrites > 0 =>
                   /\ kc.clusters[ctx.cluster].server = config.host
                   /\ kc.clusters[ctx.cluster].caData = polled.ca
                   /\ kc.authInfos[ctx.authInfo].token = polled.token

C13_Witness ==
    /\ result = "ok"
    /\ secretWrites = 1
    /\ polled.ca = "ca1"
    /\ StoredKubeconfig.clusters["workspace"].caData = "ca1"
    /\ kubeSecret.data.kubeconfig["clusters"]["workspace"]["certificate-authority-data"]
          = Base64("ca1")

(* createControllerKubeconfigSecret is at work. *)
InCred == pc \in {"credpoll", "credwait"} \/ PastWait
(* This step is one of createControllerKubeconfigSecret, not of the environment. *)
CredStep == InCred /\ (pc' # pc \/ elapsed' # elapsed)

(* C14: no step of the credential materializer changes the token secret, the
   objects of the manifests or the type catalog, and the kubeconfig secret is
   changed only by its Create and its Update. *)
C14_OnlyKubeconfigWritten ==
    /\ [][CredStep => /\ tokenSecret' = tokenSecret
                      /\ objects' = objects
                      /\ catalog' = catalog]_vars
    /\ [][kubeSecret' # kubeSecret => pc \in {"credcreate", "credupdate"}]_vars
    /\ [](InCred => step = CREDENTIAL)

C14_Witness ==
    /\ result = "ok"
    /\ step = CREDENTIAL
    /\ secretWrites = 1
    /\ kubeSecret.exists
    /\ tokenSecret = [exists |-> TRUE, token |-> "tok1", ca |-> ""]
    /\ polled = tokenSecret

(* This step is an API call that reached the server. *)
CallSent == pc' # pc /\ ~ctxDone /\ faults' = faults

(* C15: the kubeconfig secret is persisted by create-or-update.  Get follows a
   Create that found the secret, Update follows that Get with the
   resourceVersion it read, and each of the two succeeds when it reaches the
   server; an Update that succeeds stores the kubeconfig synthesized by this
   run, so a second run that returns success leaves the secret with the data
   of its own kubeconfig. *)
C15_SecretUpsert ==
    /\ [](pc = "credget" => kubeSecret.exists)
    /\ [](pc = "credupdate" => kubeSecret.exists /\ secretRV = kubeSecret.rv)
    /\ [][(pc = "credcreate" /\ CallSent) =>
            IF kubeSecret.exists
            THEN pc' = "credget" /\ kubeSecret' = kubeSecret
            ELSE result' = "ok" /\ kubeSecret'.data = SecretData]_vars
    /\ [][(pc = "credget" /\ CallSent) =>
            pc' = "credupdate" /\ secretRV' = kubeSecret.rv]_vars
    /\ [][(pc = "credupdate" /\ CallSent) =>
            /\ result' = "ok"
            /\ kubeSecret' = [exists |-> TRUE, rv |-> kubeSecret.rv + 1,
                              data |-> SecretData]]_vars
    /\ []((runs > 1 /\ result = "ok") =>
            /\ kubeSecret.rv >= 2
            /\ kubeSecret.data = SecretData
            /\ StoredKubeconfig.clusters["workspace"].server = config.host)

C15_Witness ==
    /\ runs = 2
    /\ result = "ok"
    /\ config.host = OtherHost
    /\ secretRV = 1
    /\ kubeSecret.rv = 2
    /\ StoredKubeconfig.clusters["workspace"].server = OtherHost

(* The reader's next document cannot be decoded: malformed YAML or no kind. *)
UndecodableNext ==
    /\ pc = "read"
    /\ di + 1 <= Len(CurFile.docs)
    /\ ~CurFile.docs[di + 1].blank
    /\ ~GoodDoc(CurFile.docs[di + 1])

(* C20: a document that cannot be decoded is recorded as failed and the reader
   of its file goes on, with the errors of the other files untouched; when the
   pass has ended, every document after it, in its file and in the files
   after, has been attempted. *)
C20_DecodeFailureLocal ==
    /\ [][(UndecodableNext /\ di' = di + 1) =>
            /\ pc' = "read"
            /\ fi' = fi
            /\ errs' = errs
            /\ failed' = failed \cup {<<fi, di'>>}
            /\ passLog' = Append(passLog, <<fi, di'>>)]_vars
    /\ [](pc = "wait" =>
            \A p \in failed :
                ~GoodDoc(DocAt(Files, p)) =>
                    \A q \in AppliedDocs(Files) : Before(p, q) => q \in Range(passLog))

C20_Witness ==
    /\ pc = "wait"
    /\ step \in SetSteps
    /\ Files = MalformedSet(KindOf[step])
    /\ failed = {<<1, 1>>}
    /\ passLog = <<<<1, 1>>, <<1, 2>>, <<2, 1>>>>
    /\ objects[<<KindOf[step], "a">>].exists
    /\ objects[<<KindOf[step], "b">>].exists

(* The step at hand returns to Bootstrap's caller with an error. *)
ReturnsError == pc' = "returned" /\ result' = "error"

(* C19 as stated: a retry loop or credential wait whose context is already
   done when its poll starts calls the condition not even once: no apply pass
   begins and no poll of the token secret is made. *)
C19_NoPassWhenCancelled ==
    /\ [][(ctxDone /\ pc = "cond" /\ attempt = 0) => pc' # "files"]_vars
    /\ [][(ctxDone /\ pc = "credpoll" /\ elapsed = 0) => pc' = pc]_vars

(* C19, amended: a tick of the retry loop or of the credential wait that finds
   the context done starts no pass and no poll, and the step returns an error;
   a pass or poll already due still runs under the done context (the first
   one always does), its calls fail without any change on the server, a poll
   under it returns an error, and the pass it fails leads to the waiting
   point, never to success of a set with documents to apply. *)
C19_CancelStopsAtTick ==
    /\ [][(ctxDone /\ pc \in {"wait", "credwait"}) => (pc' = pc \/ ReturnsError)]_vars
    /\ [][(ctxDone /\ pc = "credpoll" /\ pc' # pc) => ReturnsError]_vars
    /\ [][ctxDone => objects' = objects /\ kubeSecret' = kubeSecret]_vars
    /\ [][(ctxDone /\ pc \in {"create", "get", "update"} /\ pc' # pc) =>
            <<fi, di>> \in failed']_vars

C19_Witness ==
    /\ pc = "returned"
    /\ result = "error"
    /\ ctxDone
    /\ errStep = KCP
    /\ passes = 1
    /\ attempt = 1
    /\ failed = AppliedDocs(fs[KCP])
    /\ KCP \in issued
    /\ \A id \in ObjIds : ~objects[id].exists

----------------------------------------------------------------------------
(* A server whose catalog also shrinks. *)

(* The API server stops serving a kind the resolver has fetched, while the
   first retry loop waits for its next pass. *)
UnregisterType ==
    /\ result = "running"
    /\ pc = "wait"
    /\ step = KCP
    /\ \E k \in catalog \cap delegate.kinds : catalog' = catalog \ {k}
    /\ UNCHANGED <<Conc, Apps, fs, config, pc, step, result, FSLocals, delegate, cacheValid,
                   CredLocals, objects, tokenSecret, kubeSecret, ctxDone, faults, runs,
                   PassHistory, LoopHistory, issued, stepOK, errStep, credRuns,
                   secretWrites>>

CatalogNext == Next \/ UnregisterType
CatalogSpec == Init /\ [][CatalogNext]_vars

(* C18: in a pass that follows an invalidation, a kind the server has stopped
   serving since the previous pass is not resolved: the resolver answers from
   the server's catalog, not from what it fetched before. *)
C18_NoStaleMapping ==
    [][(pc = "resolve" /\ invalidations >= 1 /\ ~Served(CurDoc.kind)) => pc' # "create"]_vars

----------------------------------------------------------------------------
(* Two bootstrap processes apply the first manifest set side by side, next to
   an actor that writes fields of its own to the set's objects.  Each process
   runs bootstrapFS as above; its steps are the calls that reach the server,
   the decoding and the resolution before a call being local to the process.
   resourceVersions are opaque to the clients and the server only tests them
   for equality, so a write names its new version by the least number that is
   neither stored nor held by a process for that object. *)

MaxEdits == 1         \* writes the other actor makes

(* The set both processes embed: two documents in one file, next to entries
   the pass skips. *)
ConcSet == MixedSet(KindOf[KCP])

(* The processes' manifest set is well-formed, all kinds are served, no call
   fails for an outside reason and no context is cancelled. *)
ConcInputs ==
    /\ fs = [s \in SetSteps |-> IF s = KCP THEN ConcSet ELSE CleanSet(KindOf[s])]
    /\ catalog = Kinds
    /\ config = [host |-> Host, valid |-> TRUE]
    /\ tokenSecret = NoToken
    /\ faults = 0

(* The documents a pass applies, in the order it applies them. *)
DocSeq ==
    LET ps == AppliedDocs(ConcSet) IN
    [i \in 1..Cardinality(ps) |->
        CHOOSE q \in ps : Cardinality({r \in ps : Before(r, q)}) = i - 1]

(* The server after an earlier run has applied the set. *)
AppliedBefore ==
    [id \in ObjIds |->
        IF \E i \in 1..Len(DocSeq) : DocId(DocAt(ConcSet, DocSeq[i])) = id
        THEN LET i == CHOOSE j \in 1..Len(DocSeq) : DocId(DocAt(ConcSet, DocSeq[j])) = id
             IN [exists |-> TRUE, rv |-> 1,
                 body |-> DocAt(ConcSet, DocSeq[i]).body, extra |-> FALSE]
        ELSE NoObject]

(* The processes start against an empty server, or after an earlier run. *)
ConcInit ==
    /\ ConcInputs
    /\ StartState
    /\ objects \in {[id \in ObjIds |-> NoObject], AppliedBefore}

ProcDoc(p) == DocAt(ConcSet, DocSeq[procs[p].pos])
ProcId(p) == <<ProcDoc(p).kind, ProcDoc(p).name>>

(* The versions of object id some process has read and is about to send. *)
Held(id) == {procs[q].urv : q \in {r \in Procs : procs[r].pc = "update" /\ ProcId(r) = id}}

NewVersion(id) ==
    CHOOSE n \in 1..(Cardinality(Procs) + 2) :
        /\ n \notin Held(id) \cup {objects[id].rv}
        /\ \A m \in 1..(n - 1) : m \in Held(id) \cup {objects[id].rv}

(* createResource returned for the document at hand, with an error if why is
   not empty: the read loop goes to the next document, or the pass ends and the
   condition reports done or has the poll call it again. *)
ProcAfter(p, why, status) ==
    LET e == IF why = "" THEN procs[p].errs
             ELSE Append(procs[p].errs, [pos |-> procs[p].pos, why |-> why, status |-> status])
    IN IF procs[p].pos < Len(DocSeq)
       THEN [pc |-> "create", pos |-> procs[p].pos + 1, urv |-> 0, errs |-> e]
       ELSE IF PassOutcome(e).done
            THEN [pc |-> "done", pos |-> 0, urv |-> 0, errs |-> e]
            ELSE [pc |-> "cond", pos |-> 0, urv |-> 0, errs |-> e]

(* The condition is called and the pass comes to its first document. *)
ConcPassBegin(p) ==
    /\ procs[p].pc = "cond"
    /\ procs' = [procs EXCEPT ![p] = [pc |-> "create", pos |-> 1, urv |-> 0, errs |-> <<>>]]
    /\ UNCHANGED <<Apps, fs, config, pc, step, result, FSLocals, delegate, cacheValid, CredLocals,
                   Server, ctxDone, faults, runs, PassHistory, LoopHistory, issued,
                   stepOK, errStep, credRuns, secretWrites, edits>>

ConcCreate(p) ==
    /\ procs[p].pc = "create"
    /\ LET r == ServerCreate(objects, ProcId(p), Manifest(ProcDoc(p)))
           status == Answer(ProcDoc(p).kind, r.status)
           to == AfterCreate(status)
       IN /\ objects' = IF Served(ProcDoc(p).kind) THEN r.objs ELSE objects
          /\ procs' = [procs EXCEPT ![p] =
                          IF to.pc = "read" THEN ProcAfter(p, to.why, status)
                          ELSE [procs[p] EXCEPT !.pc = to.pc]]
    /\ UNCHANGED <<Apps, fs, config, pc, step, result, FSLocals, delegate, cacheValid, CredLocals,
                   catalog, tokenSecret, kubeSecret, ctxDone, faults, runs, PassHistory,
                   LoopHistory, issued, stepOK, errStep, credRuns, secretWrites, edits>>

ConcGet(p) ==
    /\ procs[p].pc = "get"
    /\ LET r == ServerGet(objects, ProcId(p))
           status == Answer(ProcDoc(p).kind, r.status)
       IN procs' = [procs EXCEPT ![p] =
                       IF status = "ok"
                       THEN [procs[p] EXCEPT !.pc = "update",
                                             !.urv = CopyResourceVersion(r.rv)]
                       ELSE ProcAfter(p, "get", status)]
    /\ UNCHANGED <<Apps, fs, config, pc, step, result, FSLocals, delegate, cacheValid, CredLocals,
                   Server, ctxDone, faults, runs, PassHistory, LoopHistory, issued,
                   stepOK, errStep, credRuns, secretWrites, edits>>

ConcUpdate(p) ==
    /\ procs[p].pc = "update"
    /\ LET id == ProcId(p)
           r == ServerUpdate(objects, id, procs[p].urv, Manifest(ProcDoc(p)))
           status == Answer(ProcDoc(p).kind, r.status)
       IN /\ objects' = IF status = "ok"
                        THEN [objects EXCEPT ![id] = [r.objs[id] EXCEPT !.rv = NewVersion(id)]]
                        ELSE objects
          /\ procs' = [procs EXCEPT ![p] =
                          ProcAfter(p, IF status = "ok" THEN "" ELSE "update", status)]
    /\ UNCHANGED <<Apps, fs, config, pc, step, result, FSLocals, delegate, cacheValid, CredLocals,
                   catalog, tokenSecret, kubeSecret, ctxDone, faults, runs, PassHistory,
                   LoopHistory, issued, stepOK, errStep, credRuns, secretWrites, edits>>

(* Another actor sets fields of its own on an object of the set. *)
OtherActor ==
    /\ edits < MaxEdits
    /\ \E id \in ObjIds :
        /\ objects[id].exists
        /\ objects' = [objects EXCEPT ![id].extra = TRUE, ![id].rv = NewVersion(id)]
    /\ edits' = edits + 1
    /\ UNCHANGED <<Apps, fs, config, pc, step, result, FSLocals, delegate, cacheValid, CredLocals,
                   catalog, tokenSecret, kubeSecret, ctxDone, faults, runs, PassHistory,
                   LoopHistory, issued, stepOK, errStep, credRuns, secretWrites, procs>>

ProcStep(p) == ConcPassBegin(p) \/ ConcCreate(p) \/ ConcGet(p) \/ ConcUpdate(p)

ConcNext == (\E p \in Procs : ProcStep(p)) \/ OtherActor

(* Each process that has not returned keeps taking steps. *)
ConcSpec == ConcInit /\ [][ConcNext]_vars /\ \A p \in Procs : WF_vars(ProcStep(p))

(* Every object of the set that exists holds the content of its document. *)
AsManifest(id) ==
    \E i \in 1..Len(DocSeq) :
        LET doc == DocAt(ConcSet, DocSeq[i]) IN
        /\ id = <<doc.kind, doc.name>>
        /\ objects[id].body = doc.body
        /\ ~objects[id].extra

AllDone == \A p \in Procs : procs[p].pc = "done"

(* What holds of two processes in every interleaving: an object that exists
   has the content of its document unless the other actor wrote to it, the
   only failure a process meets is the conflict of an update, which fails the
   document and has the pass run again, and a process returns only from a
   pass without failure, with every object of the set on the server. *)
RaceSafety ==
    /\ \A id \in ObjIds : objects[id].exists /\ edits = 0 => AsManifest(id)
    /\ \A p \in Procs : \A i \in 1..Len(procs[p].errs) :
          /\ procs[p].errs[i].why = "update"
          /\ procs[p].errs[i].status = "Conflict"
    /\ \A p \in Procs : procs[p].pc = "cond" /\ procs[p].pos = 0 /\ procs[p] # NewProc
                          => procs[p].errs # <<>>
    /\ \A p \in Procs : procs[p].pc = "done" =>
          /\ procs[p].errs = <<>>
          /\ \A i \in 1..Len(DocSeq) :
                LET doc == DocAt(ConcSet, DocSeq[i]) IN
                objects[<<doc.kind, doc.name>>].exists

(* C16 as stated: every interleaving is safe, and with no cancellation both
   retry loops eventually return success with every object equal to its
   manifest document. *)
C16_BothLoopsSucceed ==
    /\ []RaceSafety
    /\ <>(edits > 0 \/ (AllDone /\ \A id \in ObjIds : objects[id].exists => AsManifest(id)))

(* C16, amended: every interleaving is safe, and once one of the two loops has
   returned success the other one returns success as well. *)
C16_RacesSafe ==
    /\ []RaceSafety
    /\ (\E p \in Procs : procs[p].pc = "done") ~> AllDone

C16_Witness ==
    /\ procs["p1"].pc = "done"
    /\ procs["p2"].pc = "cond"
    /\ procs["p2"].errs # <<>>
    /\ edits = 0
    /\ Len(DocSeq) = 2

(* Process p's update has been accepted in this step. *)
UpdateAccepted(p) ==
    /\ procs[p].pc = "update"
    /\ procs'[p] # procs[p]
    /\ objects' # objects

(* C17: the update sends the decoded document with the resourceVersion the
   get returned: an accepted update was sent with the version the object had,
   and leaves the object with the document's content and without the fields
   another actor had set; a refused one leaves the object as it was. *)
C17_UpdateReplaces ==
    [][\A p \in Procs :
          /\ UpdateAccepted(p) =>
                /\ procs[p].urv = objects[ProcId(p)].rv
                /\ objects'[ProcId(p)].exists
                /\ objects'[ProcId(p)].body = ProcDoc(p).body
                /\ ~objects'[ProcId(p)].extra
                /\ objects'[ProcId(p)].rv # objects[ProcId(p)].rv
                /\ \A id \in ObjIds \ {ProcId(p)} : objects'[id] = objects[id]
          /\ (procs[p].pc = "update" /\ procs'[p] # procs[p] /\ ~UpdateAccepted(p)) =>
                /\ procs[p].urv # objects[ProcId(p)].rv
                /\ objects' = objects]_vars

C17_Witness ==
    /\ edits = 1
    /\ \A id \in ObjIds : ~objects[id].extra
    /\ \E p \in Procs : procs[p].pc = "done"

(* The status of the call just issued. *)
LastStatus == calls'[Len(calls')].status

(* createResource returns the error of the call named why for the document
   at hand, and the server's objects are as they were. *)
FailsWith(why) ==
    /\ pc' = "read"
    /\ fileErrs' = Append(fileErrs, DocErr(fi, di, why, LastStatus))
    /\ failed' = failed \cup {<<fi, di>>}
    /\ objects' = objects

(* C21: a create answered with an error other than AlreadyExists fails the
   document with that error and is followed by no get and no update; a get
   that fails after AlreadyExists fails the document with its error and is
   followed by no update; the step leaves the objects as they were. *)
C21_ErrorsEndApply ==
    /\ [][(pc = "create" /\ pc' # pc /\ LastStatus \notin {"ok", "AlreadyExists"}) =>
            FailsWith("create")]_vars
    /\ [][(pc = "get" /\ pc' # pc /\ LastStatus # "ok") => FailsWith("get")]_vars
    /\ [](Len(calls) >= 2 /\ calls[2].status \notin {"ok", "AlreadyExists"}
            => Len(calls) = 2 /\ ~InApply)
    /\ [](Len(calls) >= 3 /\ calls[3].status # "ok" => Len(calls) = 3 /\ ~InApply)

C21_Witness ==
    /\ pc = "read"
    /\ Len(calls) = 3
    /\ calls[2].status = "AlreadyExists"
    /\ calls[3].status = "fault"
    /\ <<fi, di>> \in failed
    /\ objects[CurId].exists
    /\ objects[CurId].rv = 1

(* The last failed pass of this loop could not resolve the document at hand. *)
UnresolvedLastPass ==
    \E e \in DocErrsOf(lastErr) : e.f = fi /\ e.d = di /\ e.why = "mapping"

(* C22: a document whose type cannot be resolved is attempted once in a pass:
   no document is attempted twice in one pass, the failed resolution ends the
   document's apply with no call to the server, and a type the server began
   to serve after the catalog was fetched is not looked up again in that
   pass; the document is resolved again only in a later pass, which the
   invalidation of the cache precedes. *)
C22_UnresolvedOncePerPass ==
    /\ [](\A i, j \in DOMAIN passLog : passLog[i] = passLog[j] => i = j)
    /\ [][(pc = "resolve" /\ pc' # pc /\ LastStatus = "NoMatch") =>
            /\ FailsWith("mapping")
            /\ Len(calls') = 1
            /\ di' = di]_vars
    /\ [][(pc = "resolve" /\ pc' # pc /\ delegate.built /\ cacheValid
             /\ CurDoc.kind \notin delegate.kinds) => LastStatus = "NoMatch"]_vars
    /\ [][(pc = "resolve" /\ pc' # pc /\ UnresolvedLastPass) =>
            /\ attempt >= 2
            /\ invalidations = attempt - 1
            /\ <<fi, di>> \notin failed]_vars

C22_Witness ==
    /\ pc = "read"
    /\ calls = <<[verb |-> "resolve", status |-> "NoMatch"]>>
    /\ <<fi, di>> \in failed
    /\ Served(CurDoc.kind)
    /\ UnresolvedLastPass
    /\ Len(passLog) >= 2

(* The apply of the document at hand ends without error on this step. *)
ApplySucceeds ==
    /\ pc \in {"create", "update"}
    /\ pc' = "read"
    /\ <<fi, di>> \notin failed'

(* C23: every pass applies every document again, whatever earlier passes did
   and whatever the server holds: a resolved document gets its create, a
   create that finds the object gets AlreadyExists and is followed by the get,
   a get that finds it by the update, with no comparison of the object with
   the manifest; each apply that succeeds is one accepted write to the
   document's object (its version counts them) and nothing else writes, so an
   object has been written as often as its document succeeded. *)
C23_EveryPassReapplies ==
    /\ [][(pc = "resolve" /\ pc' # pc /\ LastStatus = "ok") => pc' = "create"]_vars
    /\ [][(pc = "create" /\ CallSent /\ objects[CurId].exists) =>
            LastStatus = "AlreadyExists" /\ pc' = "get"]_vars
    /\ [][(pc = "get" /\ CallSent) => LastStatus = "ok" /\ pc' = "update"]_vars
    /\ [][ApplySucceeds =>
            /\ objects'[CurId].rv = objects[CurId].rv + 1
            /\ \A id \in ObjIds \ {CurId} : objects'[id] = objects[id]]_vars
    /\ [][objects' # objects => ApplySucceeds]_vars
    /\ []((pc = "wait" \/ LoopReturnedOK) =>
            \A p \in AppliedDocs(LastFiles) : p \in Range(passLog))

C23_Witness ==
    /\ runs = 1
    /\ attempt = 2
    /\ pc = "read"
    /\ Len(calls) = 4
    /\ calls[4].status = "ok"
    /\ <<fi, di>> \notin failed
    /\ objects[CurId].rv = 2
    /\ objects[CurId].body = CurDoc.body

(* C24: Bootstrap removes nothing.  No step takes an object, the token secret
   or the kubeconfig secret away or sets an object's version back; the calls
   of a document are type resolution (discovery reads), create, get and
   update; and whatever a manifest set's loop had applied when it returned is
   still on the server with the manifest's content for the rest of the run,
   a return with an error included. *)
C24_NothingDeleted ==
    /\ [][\A id \in ObjIds :
            objects[id].exists =>
                objects'[id].exists /\ objects'[id].rv >= objects[id].rv]_vars
    /\ [][(kubeSecret.exists => kubeSecret'.exists /\ kubeSecret'.rv >= kubeSecret.rv)
          /\ (tokenSecret.exists => tokenSecret'.exists)]_vars
    /\ [](\A i \in DOMAIN calls : calls[i].verb \in {"resolve", "create", "get", "update"})
    /\ [](\A s \in stepOK \cap SetSteps : SetApplied(s))

C24_Witness ==
    /\ pc = "returned"
    /\ result = "error"
    /\ errStep = PROVIDER
    /\ ctxDone
    /\ lastErr # <<>>
    /\ KCP \in stepOK
    /\ SetApplied(KCP)
    /\ \E p \in AppliedDocs(fs[PROVIDER]) :
          /\ GoodDoc(DocAt(fs[PROVIDER], p))
          /\ objects[DocId(DocAt(fs[PROVIDER], p))].exists

(* The non-blank documents of the manifest files from document d of file f
   on, in the order of the directory listing and of the YAML stream. *)
RECURSIVE DocsFrom(_, _, _)
DocsFrom(files, f, d) ==
    IF f > Len(files) THEN <<>>
    ELSE IF ~IsManifestFile(files[f]) \/ d > Len(files[f].docs)
    THEN DocsFrom(files, f + 1, 1)
    ELSE IF files[f].docs[d].blank THEN DocsFrom(files, f, d + 1)
    ELSE <<<<f, d>>>> \o DocsFrom(files, f, d + 1)

EnumerationOrder(files) == DocsFrom(files, 1, 1)

(* C25: the documents of a set are applied one at a time in the order of the
   directory listing and of the YAML stream of each file: a document is taken
   up only when no call of the one before is outstanding, every call is made
   for the document that was taken up last, and the documents attempted so far
   in a pass are, in this order, the documents of that fixed enumeration the
   pass has gone past, the same for every pass and every run. *)
C25_OneAtATimeInOrder ==
    /\ [][(passLog' # passLog /\ passLog' # <<>>) =>
            /\ pc = "read"
            /\ passLog' = Append(passLog, <<fi, di + 1>>)
            /\ calls' = <<>>]_vars
    /\ [][(calls' # calls /\ calls' # <<>>) =>
            /\ InApply
            /\ Len(calls') = Len(calls) + 1
            /\ SubSeq(calls', 1, Len(calls)) = calls
            /\ passLog' = passLog
            /\ passLog[Len(passLog)] = <<fi, di>>
            /\ <<fi', di'>> = <<fi, di>>]_vars
    /\ []((step \in SetSteps /\ InPass) =>
            passLog = SelectSeq(EnumerationOrder(Files), Passed))
    /\ []((pc = "wait" \/ LoopReturnedOK) => passLog = EnumerationOrder(LastFiles))

C25_Witness ==
    /\ runs = 2
    /\ attempt = 2
    /\ pc = "wait"
    /\ Len(passLog) = 2
    /\ passLog = EnumerationOrder(Files)
    /\ Files = MixedSet(KindOf[step])

(* The name ends in ext. *)
EndsWith(name, ext) == Len(name) >= Len(ext) /\ Suffix(name, Len(ext)) = ext

(* A regular file whose name ends in .yaml or .yml. *)
NamedManifest(f) == ~f.isDir /\ (EndsWith(f.name, DotYaml) \/ EndsWith(f.name, DotYml))

(* The non-blank documents of the regular files named *.yaml or *.yml. *)
NamedManifestDocs(files) ==
    UNION {{<<f, d>> : d \in {e \in 1..Len(files[f].docs) : ~files[f].docs[e].blank}} :
           f \in {g \in 1..Len(files) : NamedManifest(files[g])}}

(* C26: a pass considers exactly the regular top-level files whose name ends
   in .yaml or .yml: when a pass has ended, the documents it attempted are the
   non-blank documents of those files, and every document error recorded is
   the error of one of them (directories, other files, empty files and blank
   documents leave no error). *)
C26_ExactlyManifestFiles ==
    /\ (pc = "wait" \/ LoopReturnedOK) => Range(passLog) = NamedManifestDocs(LastFiles)
    /\ (step \in SetSteps /\ (InPass \/ pc = "wait")) =>
          \A e \in Range(fileErrs) \cup DocErrsOf(errs) :
              <<e.f, e.d>> \in NamedManifestDocs(Files)

(* What bootstrapFS returns when its poll returned err: the poll's error
   followed by the text of lastErr when a pass has failed, else the poll's
   error alone. *)
LoopError(err, last) ==
    IF err # "" /\ last # <<>>
    THEN [cause |-> err, last |-> last]
    ELSE [cause |-> err, last |-> <<>>]

(* The error Bootstrap has returned for a manifest set: the step's message
   around the error of its retry loop. *)
BootstrapError == [step |-> errStep, err |-> LoopError("ctx", lastErr)]

(* C27: a retry loop returns an error only at a tick that finds the context
   done, after at least one failed pass; the error Bootstrap then returns
   names that step and carries the cancellation together with the error the
   last failed pass returned, not that of an earlier pass and not the
   cancellation alone. *)
C27_ErrorsCarried ==
    /\ [][(InLoop /\ ReturnsError) =>
            /\ pc = "wait"
            /\ ctxDone
            /\ passes >= 1
            /\ lastErr # <<>>
            /\ lastErr = errs
            /\ <<lastErr', errs', step'>> = <<lastErr, errs, step>>
            /\ errStep' = step]_vars
    /\ []((result = "error" /\ errStep \in SetSteps) =>
            /\ BootstrapError.step = step
            /\ BootstrapError.err.cause = "ctx"
            /\ BootstrapError.err.last = errs
            /\ BootstrapError.err.last # <<>>)

C27_Witness ==
    /\ pc = "returned"
    /\ result = "error"
    /\ errStep = CONTROLLER
    /\ passes = 2
    /\ BootstrapError.step = CONTROLLER
    /\ \E e \in DocErrsOf(BootstrapError.err.last) : e.cause = "ctx"
    /\ \A e \in DocErrsOf(BootstrapError.err.last) : e.cause # "fault"
    /\ faults = 0

(* C28: the credential step is not retried.  The tick at which the wait's
   deadline is reached makes Bootstrap return the credential step's error;
   the credential step is entered at most once in a run; and once it has
   failed, nothing more is polled, no manifest set is run again and nothing
   is written. *)
C28_CredentialNotRetried ==
    /\ [][(pc = "credwait" /\ pc' # pc /\ ~ctxDone
             /\ elapsed + 1 >= PollTimeoutSeconds) =>
            ReturnsError /\ errStep' = CREDENTIAL /\ elapsed' = PollTimeoutSeconds]_vars
    /\ [](credRuns <= 1)
    /\ [](errStep = CREDENTIAL =>
            pc = "returned" /\ result = "error" /\ stepOK = SetSteps)
    /\ [][errStep = CREDENTIAL =>
            UNCHANGED <<pc, step, result, attempt, passes, passLog, calls, issued,
                        elapsed, polled, credRuns, secretWrites, objects,
                        kubeSecret>>]_vars

C28_Witness ==
    /\ pc = "returned"
    /\ result = "error"
    /\ errStep = CREDENTIAL
    /\ elapsed = PollTimeoutSeconds
    /\ ~ctxDone
    /\ credRuns = 1
    /\ ~kubeSecret.exists
    /\ \A s \in SetSteps : SetApplied(s)

(* The get of the token secret issued on this step failed with an error that
   is not NotFound: the network failed it or the context was done. *)
TokenGetFails == pc = "credpoll" /\ pc' # pc /\ (ctxDone \/ faults' # faults)

(* C29: in the credential wait a get of the token secret that fails with an
   error other than NotFound makes Bootstrap return the credential step's
   error on that very step, before the deadline, with no further tick; the
   wait goes on to another poll only after a get that reached the server and
   found no secret or a secret with an empty token, and a get that found a
   token ends the wait with success. *)
C29_PollErrorEndsWait ==
    /\ [][TokenGetFails =>
            /\ ReturnsError
            /\ errStep' = CREDENTIAL
            /\ elapsed' = elapsed
            /\ elapsed < PollTimeoutSeconds
            /\ polled' = NoToken]_vars
    /\ [][(pc = "credpoll" /\ pc' = "credwait") =>
            /\ CallSent
            /\ ~tokenSecret.exists \/ tokenSecret.token = ""]_vars
    /\ [][(pc = "credpoll" /\ CallSent /\ tokenSecret.exists /\ tokenSecret.token # "") =>
            pc' = "credcreate" /\ polled' = tokenSecret]_vars

C29_Witness ==
    /\ pc = "returned"
    /\ result = "error"
    /\ errStep = CREDENTIAL
    /\ ~ctxDone
    /\ elapsed = 1
    /\ polled = NoToken
    /\ faults = 0

----------------------------------------------------------------------------
(* Two Bootstrap runs in the create-or-update of the kubeconfig secret at the
   same time, next to an actor that deletes or modifies the secret.  Each
   run is a record in procs: its position, the resourceVersion it read, the
   calls it has made, and two history flags: disturbed, the secret was
   written or deleted by somebody else after the run's create was answered;
   stale, the same after the run's get was answered. *)

NewCredProc ==
    [pc |-> "credcreate", rv |-> 0, calls |-> <<>>, disturbed |-> FALSE, stale |-> FALSE]

(* The secret an earlier run left. *)
OldSecret == [exists |-> TRUE, rv |-> 1, data |-> <<>>]

(* Both runs have applied their manifest sets and read the token. *)
CredConcInit ==
    /\ AppsStart
    /\ fs = [s \in SetSteps |-> CleanSet(KindOf[s])]
    /\ catalog = Kinds
    /\ config = [host |-> Host, valid |-> TRUE]
    /\ tokenSecret = [exists |-> TRUE, token |-> "tok1", ca |-> "ca1"]
    /\ polled = tokenSecret
    /\ objects = [id \in ObjIds |->
                    IF id[2] = "a"
                    THEN [exists |-> TRUE, rv |-> 1, body |-> 1, extra |-> FALSE]
                    ELSE NoObject]
    /\ kubeSecret \in {NoSecret, OldSecret}
    /\ pc = "credcreate"
    /\ step = CREDENTIAL
    /\ result = "running"
    /\ attempt = 1
    /\ lastErr = <<>>
    /\ fi = 1
    /\ errs = <<>>
    /\ di = 1
    /\ fileErrs = <<>>
    /\ urv = 0
    /\ delegate = Built(Kinds)
    /\ cacheValid = TRUE
    /\ elapsed = 0
    /\ secretRV = 0
    /\ ctxDone = FALSE
    /\ faults = 0
    /\ runs = 1
    /\ calls = <<>>
    /\ passLog = <<<<1, 1>>>>
    /\ failed = {}
    /\ passes = 1
    /\ invalidations = 0
    /\ issued = SetSteps
    /\ stepOK = SetSteps
    /\ errStep = 0
    /\ credRuns = 1
    /\ secretWrites = 0
    /\ procs = [p \in Procs |-> NewCredProc]
    /\ edits = 0

(* The versions of the secret some run has read and is about to send. *)
HeldSecretVersions == {procs[q].rv : q \in {r \in Procs : procs[r].pc = "credupdate"}}

(* A resourceVersion the server has not handed out to anything still in use. *)
NewSecretVersion ==
    CHOOSE n \in 1..(Cardinality(Procs) + 2) :
        /\ n \notin HeldSecretVersions \cup {kubeSecret.rv}
        /\ \A m \in 1..(n - 1) : m \in HeldSecretVersions \cup {kubeSecret.rv}

(* The history flags after somebody other than run p wrote or deleted the
   secret. *)
Disturbed(ps, p) ==
    [q \in Procs |->
        IF q # p /\ ps[q].pc \in {"credget", "credupdate"}
        THEN [ps[q] EXCEPT !.disturbed = TRUE,
                           !.stale = @ \/ ps[q].pc = "credupdate"]
        ELSE ps[q]]

(* Run p after a call: its position, and the call added to its history. *)
CredProcAfter(p, to, verb, status, rv) ==
    [procs[p] EXCEPT !.pc = to, !.rv = rv,
                     !.calls = Append(@, [verb |-> verb, status |-> status])]

(* Secrets("default").Create by run p. *)
CredConcCreate(p) ==
    /\ procs[p].pc = "credcreate"
    /\ LET status == IF kubeSecret.exists THEN "AlreadyExists" ELSE "ok"
       IN /\ kubeSecret' = IF status = "ok"
                           THEN [exists |-> TRUE, rv |-> NewSecretVersion,
                                 data |-> SecretData]
                           ELSE kubeSecret
          /\ procs' = IF status = "ok"
                      THEN Disturbed([procs EXCEPT ![p] =
                              CredProcAfter(p, "done", "create", status, 0)], p)
                      ELSE [procs EXCEPT ![p] =
                              CredProcAfter(p, "credget", "create", status, 0)]
    /\ UNCHANGED <<Apps, fs, config, pc, step, result, FSLocals, delegate, cacheValid, CredLocals,
                   objects, catalog, tokenSecret, ctxDone, faults, runs, PassHistory,
                   LoopHistory, issued, stepOK, errStep, credRuns, secretWrites, edits>>

(* Secrets("default").Get by run p; an error is returned by Bootstrap. *)
CredConcGet(p) ==
    /\ procs[p].pc = "credget"
    /\ LET status == IF kubeSecret.exists THEN "ok" ELSE "NotFound"
       IN procs' = [procs EXCEPT ![p] =
                       IF status = "ok"
                       THEN CredProcAfter(p, "credupdate", "get", status,
                                          CopySecretVersion(kubeSecret.rv))
                       ELSE CredProcAfter(p, "failed", "get", status, 0)]
    /\ UNCHANGED <<Apps, fs, config, pc, step, result, FSLocals, delegate, cacheValid, CredLocals,
                   Server, ctxDone, faults, runs, PassHistory, LoopHistory, issued,
                   stepOK, errStep, credRuns, secretWrites, edits>>

(* Mutant: an update that meets a conflict reads the secret again. *)
CredConcUpdateRetries(p) ==
    /\ procs[p].pc = "credupdate"
    /\ LET status == IF ~kubeSecret.exists THEN "NotFound"
                     ELSE IF procs[p].rv # kubeSecret.rv THEN "Conflict" ELSE "ok"
       IN /\ kubeSecret' = IF status = "ok"
                           THEN [exists |-> TRUE, rv |-> NewSecretVersion,
                                 data |-> SecretData]
                           ELSE kubeSecret
          /\ procs' = IF status = "ok"
                      THEN Disturbed([procs EXCEPT ![p] =
                              CredProcAfter(p, "done", "update", status, procs[p].rv)], p)
                      ELSE [procs EXCEPT ![p] =
                              [CredProcAfter(p, "credget", "update", status, 0)
                                  EXCEPT !.stale = FALSE]]
    /\ UNCHANGED <<Apps, fs, config, pc, step, result, FSLocals, delegate, cacheValid, CredLocals,
                   objects, catalog, tokenSecret, ctxDone, faults, runs, PassHistory,
                   LoopHistory, issued, stepOK, errStep, credRuns, secretWrites, edits>>

(* Secrets("default").Update by run p with the resourceVersion it read; an
   error is returned by Bootstrap. *)
CredConcUpdate(p) ==
    /\ procs[p].pc = "credupdate"
    /\ LET status == IF ~kubeSecret.exists THEN "NotFound"
                     ELSE IF procs[p].rv # kubeSecret.rv THEN "Conflict" ELSE "ok"
       IN /\ kubeSecret' = IF status = "ok"
                           THEN [exists |-> TRUE, rv |-> NewSecretVersion,
                                 data |-> SecretData]
                           ELSE kubeSecret
          /\ procs' = IF status = "ok"
                      THEN Disturbed([procs EXCEPT ![p] =
                              CredProcAfter(p, "done", "update", status, procs[p].rv)], p)
                      ELSE [procs EXCEPT ![p] =
                              CredProcAfter(p, "failed", "update", status, procs[p].rv)]
    /\ UNCHANGED <<Apps, fs, config, pc, step, result, FSLocals, delegate, cacheValid, CredLocals,
                   objects, catalog, tokenSecret, ctxDone, faults, runs, PassHistory,
                   LoopHistory, issued, stepOK, errStep, credRuns, secretWrites, edits>>

(* Somebody deletes the kubeconfig secret. *)
SecretDeleted ==
    /\ edits < MaxEdits
    /\ kubeSecret.exists
    /\ kubeSecret' = NoSecret
    /\ procs' = Disturbed(procs, "")
    /\ edits' = edits + 1
    /\ UNCHANGED <<Apps, fs, config, pc, step, result, FSLocals, delegate, cacheValid, CredLocals,
                   objects, catalog, tokenSecret, ctxDone, faults, runs, PassHistory,
                   LoopHistory, issued, stepOK, errStep, credRuns, secretWrites>>

(* Somebody writes other data into the kubeconfig secret. *)
SecretModified ==
    /\ edits < MaxEdits
    /\ kubeSecret.exists
    /\ kubeSecret' = [exists |-> TRUE, rv |-> NewSecretVersion, data |-> <<>>]
    /\ procs' = Disturbed(procs, "")
    /\ edits' = edits + 1
    /\ UNCHANGED <<Apps, fs, config, pc, step, result, FSLocals, delegate, cacheValid, CredLocals,
                   objects, catalog, tokenSecret, ctxDone, faults, runs, PassHistory,
                   LoopHistory, issued, stepOK, errStep, credRuns, secretWrites>>

CredConcNext ==
    \/ \E p \in Procs : CredConcCreate(p) \/ CredConcGet(p) \/ CredConcUpdate(p)
    \/ SecretDeleted
    \/ SecretModified

CredConcSpec == CredConcInit /\ [][CredConcNext]_vars

(* Run p makes a call on this step. *)
CredCall(p) == Len(procs'[p].calls) = Len(procs[p].calls) + 1
(* The status of the last call of run p. *)
LastCall(p) == procs[p].calls[Len(procs[p].calls)]

(* C30 as stated: a run for which the secret was written or deleted by a
   concurrent run or by somebody else between its create, get and update
   calls does not return success. *)
C30_DisturbedRunFails ==
    \A p \in Procs : procs[p].disturbed => procs[p].pc # "done"

(* C30, amended: the create-or-update has no retry.  A get that finds the
   secret gone and an update sent after somebody else wrote or deleted the
   secret since the run's get fail with NotFound or Conflict, leave the
   secret as it is and end the run with an error on that step, all manifest
   sets being applied; a run that returned is not called again; and a run
   that returned success after an update was not overtaken between its get
   and its update. *)
C30_NoRetryOnConflict ==
    /\ [][\A p \in Procs :
            (procs[p].pc = "credget" /\ CredCall(p) /\ ~kubeSecret.exists) =>
                /\ procs'[p].pc = "failed"
                /\ procs'[p].calls[Len(procs'[p].calls)] =
                       [verb |-> "get", status |-> "NotFound"]
                /\ kubeSecret' = kubeSecret]_vars
    /\ [][\A p \in Procs :
            (procs[p].pc = "credupdate" /\ CredCall(p) /\ procs[p].stale) =>
                /\ procs'[p].pc = "failed"
                /\ procs'[p].calls[Len(procs'[p].calls)].verb = "update"
                /\ procs'[p].calls[Len(procs'[p].calls)].status \in {"NotFound", "Conflict"}
                /\ kubeSecret' = kubeSecret]_vars
    /\ [][\A p \in Procs :
            procs[p].pc \in {"failed", "done"} => procs'[p] = procs[p]]_vars
    /\ [](\A p \in Procs :
            procs[p].pc = "failed" =>
                /\ LastCall(p).verb \in {"get", "update"}
                /\ LastCall(p).status \in {"NotFound", "Conflict"}
                /\ Len(procs[p].calls) <= 3
                /\ stepOK = SetSteps
                /\ \A s \in SetSteps : SetApplied(s))
    /\ [](\A p \in Procs : procs[p].pc = "done" => ~procs[p].stale)

C30_Witness ==
    /\ edits = 0
    /\ procs["p1"].pc = "done"
    /\ Len(procs["p1"].calls) = 3
    /\ procs["p2"].pc = "failed"
    /\ procs["p2"].calls = <<[verb |-> "create", status |-> "AlreadyExists"],
                             [verb |-> "get", status |-> "ok"],
                             [verb |-> "update", status |-> "Conflict"]>>
    /\ kubeSecret.data = SecretData
    /\ \A s \in SetSteps : SetApplied(s)

(* C31: the wait is over as soon as a get finds a non-empty token, whatever
   the secret holds under ca.crt; with no CA certificate in the token secret
   the step goes on and the kubeconfig it stores has a cluster entry with
   empty CA data, the certificate-authority-data key being left out of the
   stored document. *)
C31_ReadyOnTokenOnly ==
    /\ [][(pc = "credpoll" /\ CallSent /\ tokenSecret.exists) =>
            (pc' = "credcreate") = (tokenSecret.token # "")]_vars
    /\ [][(pc = "credpoll" /\ pc' = "credcreate") => polled' = tokenSecret]_vars
    /\ []((secretWrites > 0 /\ polled.ca = "") =>
            /\ kubeSecret.exists
            /\ StoredKubeconfig.clusters["workspace"].caData = ""
            /\ "certificate-authority-data"
                  \notin DOMAIN kubeSecret.data.kubeconfig["clusters"]["workspace"]
            /\ EmbeddedToken = polled.token)

C31_Witness ==
    /\ result = "ok"
    /\ secretWrites = 1
    /\ tokenSecret = [exists |-> TRUE, token |-> "tok1", ca |-> ""]
    /\ polled = tokenSecret
    /\ StoredKubeconfig.clusters["workspace"].caData = ""
    /\ StoredKubeconfig.clusters["workspace"].server = config.host

----------------------------------------------------------------------------
(* CowboyReconciler.Reconcile (operator/wild-west/controller.go), run against
   an API server on which users create, edit and delete the Cowboy.  The
   server keeps one revision counter: every write takes the next revision,
   and it is kept when the Cowboy is deleted, so that a Cowboy created again
   never has a resourceVersion handed out before. *)

MaxReconciles == 3    \* reconcile requests handled
MaxChanges == 2       \* creations, edits and deletions by users

Intents == {"", "ride", "rob"}

(* The variables of the bootstrapper. *)
Bootstrapper ==
    <<fs, config, pc, step, result, FSLocals, delegate, cacheValid, CredLocals, Server,
      ctxDone, faults, runs, PassHistory, LoopHistory, issued, stepOK, errStep, credRuns,
      secretWrites>>

(* fmt.Sprintf("Yeehaw! %s completed", cowboy.Spec.Intent). *)
Yeehaw(intent) == <<"Yeehaw! ", intent, " completed">>

(* Mutant: the status is written whenever there is an intent. *)
WantsStatusAlways(obj) == obj.intent # ""

(* cowboy.Spec.Intent != "" && cowboy.Status.Result == "". *)
WantsStatus(obj) == obj.intent # "" /\ obj.result = <<>>

(* Mutant: a Cowboy that is gone is an error like any other. *)
GetOutcomeNotFoundIsError(status) ==
    CASE status = "ok" -> [return |-> FALSE, err |-> ""]
      [] OTHER -> [return |-> TRUE, err |-> "failed to get cowboy"]

(* What Reconcile makes of client.Get: it goes on, returns nil for NotFound,
   or returns the wrapped error. *)
GetOutcome(status) ==
    CASE status = "ok" -> [return |-> FALSE, err |-> ""]
      [] status = "NotFound" -> [return |-> TRUE, err |-> "ok"]
      [] OTHER -> [return |-> TRUE, err |-> "failed to get cowboy"]

(* How a call of the reconciler may end before it reaches the server. *)
RecOutcomes == IF recLog.errors < MaxFaults THEN {"sent", "fault"} ELSE {"sent"}

(* Reconcile returns: the request is done with the result last. *)
RecReturn(last, cause, o, log) ==
    [log EXCEPT !.last = last, !.cause = cause,
                !.errors = IF o = "sent" THEN @ ELSE @ + 1]

(* A request arrives: GetCluster, then client.Get of the Cowboy. *)
ReconcileGet ==
    /\ rec.pc = "idle"
    /\ recLog.runs < MaxReconciles
    /\ \E o \in RecOutcomes \cup (IF recLog.errors < MaxFaults THEN {"cluster"} ELSE {}) :
        LET log == [recLog EXCEPT !.runs = @ + 1] IN
        IF o = "cluster"
        THEN /\ recLog' = RecReturn("failed to get cluster", "cluster", o, log)
             /\ rec' = IdleReconciler
        ELSE LET status == IF o = "fault" THEN "fault"
                           ELSE IF cowboy.exists THEN "ok" ELSE "NotFound"
                 out == GetOutcome(status)
             IN IF out.return
                THEN /\ recLog' = RecReturn(out.err, status, o, log)
                     /\ rec' = IdleReconciler
                ELSE /\ recLog' = log
                     /\ rec' = [pc |-> IF WantsStatus(cowboy) THEN "update" ELSE "event",
                                obj |-> cowboy]
    /\ UNCHANGED <<Bootstrapper, Conc, cowboy, portal, net>>

(* cowboy.Status.Result is set and client.Status().Update sends the copy:
   the server replaces the status when the copy's resourceVersion is the
   current one, and answers with the stored object. *)
ReconcileUpdate ==
    /\ rec.pc = "update"
    /\ \E o \in RecOutcomes :
        LET obj == [rec.obj EXCEPT !.result = Yeehaw(rec.obj.intent)]
            status == IF o = "fault" THEN "fault"
                      ELSE IF ~cowboy.exists THEN "NotFound"
                      ELSE IF cowboy.rv # obj.rv THEN "Conflict" ELSE "ok"
            log == [recLog EXCEPT !.updates = @ + 1]
        IN IF status = "ok"
           THEN /\ cowboy' = [cowboy EXCEPT !.result = obj.result, !.rv = @ + 1]
                /\ rec' = [pc |-> "event", obj |-> cowboy']
                /\ recLog' = log
           ELSE /\ recLog' = RecReturn("failed to update cowboy status", status, o, log)
                /\ rec' = IdleReconciler
                /\ UNCHANGED cowboy
    /\ UNCHANGED <<Bootstrapper, Conc, portal, net>>

(* recorder.Eventf(..., "Reconciled", ...) and return nil. *)
ReconcileEvent ==
    /\ rec.pc = "event"
    /\ recLog' = [RecReturn("ok", "", "sent", recLog) EXCEPT !.events = @ + 1,
                                                             !.seen = rec.obj]
    /\ rec' = IdleReconciler
    /\ UNCHANGED <<Bootstrapper, Conc, cowboy, portal, net>>

(* A user creates the Cowboy. *)
CowboyCreated ==
    /\ recLog.changes < MaxChanges
    /\ ~cowboy.exists
    /\ \E i \in Intents :
        cowboy' = [exists |-> TRUE, intent |-> i, result |-> <<>>, rv |-> cowboy.rv + 1]
    /\ recLog' = [recLog EXCEPT !.changes = @ + 1]
    /\ UNCHANGED <<Bootstrapper, Conc, rec, portal, net>>

(* A user changes spec.intent. *)
CowboyEdited ==
    /\ recLog.changes < MaxChanges
    /\ cowboy.exists
    /\ \E i \in Intents \ {cowboy.intent} :
        cowboy' = [cowboy EXCEPT !.intent = i, !.rv = @ + 1]
    /\ recLog' = [recLog EXCEPT !.changes = @ + 1]
    /\ UNCHANGED <<Bootstrapper, Conc, rec, portal, net>>

(* A user deletes the Cowboy. *)
CowboyDeleted ==
    /\ recLog.changes < MaxChanges
    /\ cowboy.exists
    /\ cowboy' = [NoCowboy EXCEPT !.rv = cowboy.rv + 1]
    /\ recLog' = [recLog EXCEPT !.changes = @ + 1]
    /\ UNCHANGED <<Bootstrapper, Conc, rec, portal, net>>

ReconcilerInit ==
    /\ ConcInputs
    /\ StartState
    /\ objects = [id \in ObjIds |-> NoObject]

ReconcilerNext ==
    \/ ReconcileGet
    \/ ReconcileUpdate
    \/ ReconcileEvent
    \/ CowboyCreated
    \/ CowboyEdited
    \/ CowboyDeleted

ReconcilerSpec == ReconcilerInit /\ [][ReconcilerNext]_vars

----------------------------------------------------------------------------
(* C32: the reconciler changes status.result only in its status update, and
   only for a Cowboy whose spec.intent is non-empty and whose status.result
   is empty, to the sentence made from that intent; a non-empty status.result
   of a Cowboy stays what it is, also when spec.intent is changed; the status
   update is reached only from a copy with an intent and no result; and a
   reconcile of the Cowboy as the last successful reconcile left it sends no
   status update. *)
C32_ResultWrittenOnce ==
    /\ [][(cowboy.exists /\ cowboy'.exists /\ cowboy'.result # cowboy.result) =>
            /\ rec.pc = "update"
            /\ cowboy.intent # ""
            /\ cowboy.result = <<>>
            /\ cowboy'.result = Yeehaw(cowboy.intent)
            /\ cowboy'.intent = cowboy.intent]_vars
    /\ [][(cowboy.exists /\ cowboy'.exists /\ cowboy.result # <<>>) =>
            cowboy'.result = cowboy.result]_vars
    /\ [][recLog'.updates # recLog.updates =>
            /\ rec.pc = "update"
            /\ rec.obj.intent # ""
            /\ rec.obj.result = <<>>]_vars
    /\ [][(rec.pc = "idle" /\ rec'.pc # "idle" /\ recLog.last = "ok"
             /\ recLog.cause = "" /\ cowboy = recLog.seen) =>
            rec'.pc = "event"]_vars

(* An intent changed after the result was written, and reconciled again. *)
C32_Witness ==
    /\ rec.pc = "idle"
    /\ recLog.last = "ok"
    /\ recLog.events = 2
    /\ recLog.updates = 1
    /\ cowboy.exists
    /\ cowboy.intent = "rob"
    /\ cowboy.result = Yeehaw("ride")

(* The cases in which Reconcile returns an error. *)
ReconcileErrors ==
    {"failed to get cluster", "failed to get cowboy", "failed to update cowboy status"}

(* C33: a reconcile that finds no Cowboy returns success, with no status
   update and no event; a get that fails otherwise returns an error, and so
   does a status update that fails; an event is recorded only by a reconcile
   that returns success. *)
C33_NotFoundIsSuccess ==
    /\ [][(rec.pc = "idle" /\ recLog'.runs # recLog.runs /\ rec'.pc = "idle") =>
            /\ recLog'.cause \in {"NotFound", "fault", "cluster"}
            /\ (recLog'.cause = "NotFound") = (recLog'.last = "ok")
            /\ (recLog'.cause = "NotFound") => (~cowboy.exists /\ recLog'.errors = recLog.errors)
            /\ (recLog'.cause = "fault") = (recLog'.last = "failed to get cowboy")
            /\ recLog'.updates = recLog.updates
            /\ recLog'.events = recLog.events
            /\ cowboy' = cowboy]_vars
    /\ [][(rec.pc = "idle" /\ rec'.pc # "idle") => cowboy.exists]_vars
    /\ [][(rec.pc = "update" /\ rec'.pc = "idle") =>
            /\ recLog'.last = "failed to update cowboy status"
            /\ recLog'.cause \in {"NotFound", "Conflict", "fault"}
            /\ recLog'.events = recLog.events
            /\ cowboy' = cowboy]_vars
    /\ [][(rec.pc = "update" /\ rec'.pc = "event") => cowboy'.result # <<>>]_vars
    /\ [][recLog'.events # recLog.events =>
            /\ rec.pc = "event"
            /\ recLog'.last = "ok"
            /\ recLog'.events = recLog.events + 1]_vars
    /\ [](recLog.last \in ReconcileErrors => recLog.cause # "")

(* A Cowboy reconciled once and then deleted: the second reconcile finds
   nothing and returns success. *)
C33_Witness ==
    /\ rec.pc = "idle"
    /\ recLog.runs = 2
    /\ recLog.last = "ok"
    /\ recLog.cause = "NotFound"
    /\ recLog.events = 1
    /\ recLog.updates = 1
    /\ ~cowboy.exists

----------------------------------------------------------------------------
(* The portal's CowboysComponent (cowboys.component.ts) with the requests of
   CowboysService (cowboys.service.ts).  Strings the user types are sequences
   of characters.  A request in flight gets one answer: the server's answer
   with the data asked for, an answer without that data, a network error, or
   a body that is not JSON. *)

MaxInputs == 3        \* things the user does in the page

WhiteSpace == {" ", "\t"}

(* String.prototype.trim(). *)
RECURSIVE TrimStart(_)
TrimStart(s) == IF s # <<>> /\ Head(s) \in WhiteSpace THEN TrimStart(Tail(s)) ELSE s

RECURSIVE TrimEnd(_)
TrimEnd(s) ==
    IF s # <<>> /\ s[Len(s)] \in WhiteSpace THEN TrimEnd(SubSeq(s, 1, Len(s) - 1)) ELSE s

Trim(s) == TrimEnd(TrimStart(s))

(* What the user can type into the name and intent fields. *)
NameInputs == {<<>>, <<" ">>, <<"a">>, <<" ", "a", "\t">>, <<"b">>}
IntentInputs == {<<>>, <<" ">>, <<"r">>}

(* The namespaces the server lists. *)
ServerNamespaces == <<<<"n">>>>

Outcomes == {"ok", "nodata", "network", "unparsable"}

(* intent || undefined. *)
Undefined == [defined |-> FALSE, value |-> <<>>]
OrUndefined(str) == IF str = <<>> THEN Undefined ELSE [defined |-> TRUE, value |-> str]

(* fetch(...).then((res) => res.json()): the promise is rejected, or gives a
   body with or without the data asked for. *)
FetchJson(outcome, value, none) ==
    [rejected |-> outcome \in {"network", "unparsable"},
     has |-> outcome = "ok",
     value |-> IF outcome = "ok" THEN value ELSE none]

Emit(kind, value) == [kind |-> kind, value |-> value]

(* The pipes of listCowboys and listNamespaces: map(... ?.items || []) and
   catchError(() => of([])). *)
ListPipe(body, none) ==
    IF body.rejected THEN Emit("next", none)
    ELSE Emit("next", IF body.has THEN body.value ELSE none)

(* The pipe of createCowboy: map(!!...createCowboy), catchError(() => of(false)). *)
MutationPipe(body) ==
    IF body.rejected THEN Emit("next", FALSE)
    ELSE Emit("next", body.has /\ body.value)

ShowAlert(p, text, name, type) ==
    [p EXCEPT !.alerts = Append(@, [text |-> text, name |-> name, type |-> type])]

(* One more request of the service is in flight. *)
Send(n, op, name, namespace, intent) ==
    [n EXCEPT !.sent = @ + 1,
              !.pending = @ \cup {[id |-> n.sent + 1, op |-> op, name |-> name,
                                   namespace |-> namespace, intent |-> intent]}]

Answered(n, r, outcome) ==
    [n EXCEPT !.pending = @ \ {r},
              !.failedLists = IF r.op = "listCowboys" /\ outcome \in {"network", "unparsable"}
                              THEN @ + 1 ELSE @]

(* loadCowboys up to the subscription. *)
LoadCowboysStart(p) == [p EXCEPT !.loading = TRUE]
ListCowboysSent(n) == Send(n, "listCowboys", <<>>, <<>>, Undefined)

(* The user acts in the page. *)
UserActs(p) == [p EXCEPT !.inputs = @ + 1]

(* The user presses the dialog's Create button. *)
UserConfirms(p) == [UserActs(p) EXCEPT !.confirms = @ + 1]

(* ngOnInit's listener: the loading indicator, loadNamespaces, loadCowboys. *)
NgOnInit ==
    /\ ~portal.started
    /\ portal' = LoadCowboysStart([portal EXCEPT !.started = TRUE, !.indicator = TRUE])
    /\ net' = ListCowboysSent(Send(net, "listNamespaces", <<>>, <<>>, Undefined))
    /\ UNCHANGED <<Bootstrapper, Conc, cowboy, rec, recLog>>

(* The subscription of loadNamespaces gets its value. *)
ListNamespacesDone ==
    \E r \in net.pending, outcome \in Outcomes :
        /\ r.op = "listNamespaces"
        /\ LET e == ListPipe(FetchJson(outcome, ServerNamespaces, <<>>), <<>>)
               p == [portal EXCEPT !.namespaces = e.value]
           IN portal' = IF e.kind = "error" THEN portal
                        ELSE IF Len(e.value) > 0 /\ portal.newCowboyNamespace = <<>>
                             THEN [p EXCEPT !.newCowboyNamespace = e.value[1]]
                             ELSE p
        /\ net' = Answered(net, r, outcome)
        /\ UNCHANGED <<Bootstrapper, Conc, cowboy, rec, recLog>>

(* The subscription of loadCowboys gets its value or its error. *)
LoadCowboysHandler(p, e) ==
    IF e.kind = "next"
    THEN [p EXCEPT !.cowboys = e.value, !.loading = FALSE, !.indicator = FALSE]
    ELSE ShowAlert([p EXCEPT !.loading = FALSE, !.indicator = FALSE],
                   "Failed to load cowboys", <<>>, "error")

ListCowboysDone ==
    \E r \in net.pending, outcome \in Outcomes :
        /\ r.op = "listCowboys"
        /\ portal' = LoadCowboysHandler(portal, ListPipe(FetchJson(outcome, net.store, {}), {}))
        /\ net' = Answered(net, r, outcome)
        /\ UNCHANGED <<Bootstrapper, Conc, cowboy, rec, recLog>>

OpenAddDialog ==
    /\ portal.inputs < MaxInputs
    /\ LET p == [UserActs(portal) EXCEPT !.newCowboyName = <<>>, !.newCowboyIntent = <<>>,
                                         !.showAddDialog = TRUE]
       IN portal' = IF Len(portal.namespaces) > 0
                    THEN [p EXCEPT !.newCowboyNamespace = portal.namespaces[1]]
                    ELSE p
    /\ UNCHANGED <<Bootstrapper, Conc, cowboy, rec, recLog, net>>

CloseAddDialog ==
    /\ portal.inputs < MaxInputs
    /\ portal.showAddDialog
    /\ portal' = [UserActs(portal) EXCEPT !.showAddDialog = FALSE]
    /\ UNCHANGED <<Bootstrapper, Conc, cowboy, rec, recLog, net>>

OnNameInput ==
    /\ portal.inputs < MaxInputs
    /\ portal.showAddDialog
    /\ \E v \in NameInputs \ {portal.newCowboyName} :
        portal' = [UserActs(portal) EXCEPT !.newCowboyName = v]
    /\ UNCHANGED <<Bootstrapper, Conc, cowboy, rec, recLog, net>>

OnIntentInput ==
    /\ portal.inputs < MaxInputs
    /\ portal.showAddDialog
    /\ \E v \in IntentInputs \ {portal.newCowboyIntent} :
        portal' = [UserActs(portal) EXCEPT !.newCowboyIntent = v]
    /\ UNCHANGED <<Bootstrapper, Conc, cowboy, rec, recLog, net>>

(* select.selectedOption?.value || '': a listed namespace or nothing. *)
OnNamespaceChange ==
    /\ portal.inputs < MaxInputs
    /\ portal.showAddDialog
    /\ \E v \in ({<<>>} \cup {portal.namespaces[i] : i \in 1..Len(portal.namespaces)})
                  \ {portal.newCowboyNamespace} :
        portal' = [UserActs(portal) EXCEPT !.newCowboyNamespace = v]
    /\ UNCHANGED <<Bootstrapper, Conc, cowboy, rec, recLog, net>>

(* Mutant: only the name is required. *)
ConfirmWarningNameOnly(name, namespace) ==
    IF name = <<>> THEN "Please enter a name for the cowboy" ELSE ""

(* The two tests of confirmAddCowboy on the trimmed fields: the warning to
   show, or none. *)
ConfirmWarning(name, namespace) ==
    IF name = <<>> THEN "Please enter a name for the cowboy"
    ELSE IF namespace = <<>> THEN "Please select a namespace"
    ELSE ""

ConfirmAddCowboy ==
    /\ portal.inputs < MaxInputs
    /\ portal.showAddDialog
    /\ LET name == Trim(portal.newCowboyName)
           namespace == Trim(portal.newCowboyNamespace)
           intent == Trim(portal.newCowboyIntent)
           warning == ConfirmWarning(name, namespace)
       IN IF warning # ""
          THEN /\ portal' = ShowAlert(UserConfirms(portal), warning, <<>>, "warning")
               /\ UNCHANGED net
          ELSE /\ portal' = UserConfirms(portal)
               /\ net' = Send(net, "createCowboy", name, namespace, OrUndefined(intent))
    /\ UNCHANGED <<Bootstrapper, Conc, cowboy, rec, recLog>>

(* The server creates the Cowboy unless one of that name is in the namespace;
   an answer that cannot be read may follow a creation that took place. *)
Created(r, outcome) ==
    /\ outcome \in {"ok", "unparsable"}
    /\ [name |-> r.name, namespace |-> r.namespace] \notin net.store

(* The subscription of createCowboy gets its value or its error. *)
CreateCowboyHandler(p, e, name) ==
    IF e.kind = "next" /\ e.value
    THEN LoadCowboysStart([ShowAlert(p, "Cowboy created successfully", name, "success")
                             EXCEPT !.showAddDialog = FALSE])
    ELSE ShowAlert(p, "Failed to create cowboy", <<>>, "error")

CreateCowboyDone ==
    \E r \in net.pending, outcome \in Outcomes :
        /\ r.op = "createCowboy"
        /\ LET body == FetchJson(outcome, Created(r, outcome), FALSE)
               e == MutationPipe(body)
               n == [Answered(net, r, outcome) EXCEPT
                       !.store = IF Created(r, outcome)
                                 THEN @ \cup {[name |-> r.name, namespace |-> r.namespace]}
                                 ELSE @,
                       !.successes = IF ~body.rejected /\ body.has /\ body.value
                                     THEN @ + 1 ELSE @]
           IN /\ portal' = CreateCowboyHandler(portal, e, r.name)
              /\ net' = IF e.kind = "next" /\ e.value THEN ListCowboysSent(n) ELSE n
        /\ UNCHANGED <<Bootstrapper, Conc, cowboy, rec, recLog>>

PortalInit ==
    /\ ConcInputs
    /\ StartState
    /\ objects = [id \in ObjIds |-> NoObject]

PortalNext ==
    \/ NgOnInit
    \/ ListNamespacesDone
    \/ ListCowboysDone
    \/ OpenAddDialog
    \/ CloseAddDialog
    \/ OnNameInput
    \/ OnIntentInput
    \/ OnNamespaceChange
    \/ ConfirmAddCowboy
    \/ CreateCowboyDone

PortalSpec == PortalInit /\ [][PortalNext]_vars

----------------------------------------------------------------------------
(* A string with a character that is not white space. *)
HasText(str) == \E i \in 1..Len(str) : str[i] \notin WhiteSpace

(* str without the white space around its text. *)
Stripped(str, t) ==
    /\ t # <<>>
    /\ t[1] \notin WhiteSpace
    /\ t[Len(t)] \notin WhiteSpace
    /\ \E i \in 1..Len(str) : t = SubSeq(str, i, i + Len(t) - 1)

ConfirmStep == portal'.confirms # portal.confirms

NewRequests == net'.pending \ net.pending

LastAlert == portal'.alerts[Len(portal'.alerts)]

(* C34: confirmAddCowboy sends a create request exactly when the name and the
   namespace both have text, and then with both stripped of the white space
   around them; otherwise it shows a warning and sends nothing; in both cases
   the dialog stays open.  Create requests are sent by confirmAddCowboy only.
   The answer to a create request closes the dialog and reloads the list
   exactly when it reports success. *)
C34_CreateOnlyWithNameAndNamespace ==
    /\ [][ConfirmStep =>
            LET ok == HasText(portal.newCowboyName) /\ HasText(portal.newCowboyNamespace) IN
            /\ portal.showAddDialog /\ portal'.showAddDialog
            /\ (net'.sent # net.sent) = ok
            /\ ok => /\ portal'.alerts = portal.alerts
                     /\ \E r \in NewRequests :
                          /\ NewRequests = {r}
                          /\ r.op = "createCowboy"
                          /\ Stripped(portal.newCowboyName, r.name)
                          /\ Stripped(portal.newCowboyNamespace, r.namespace)
            /\ ~ok => /\ net' = net
                      /\ Len(portal'.alerts) = Len(portal.alerts) + 1
                      /\ LastAlert.type = "warning"
                      /\ LastAlert.text = IF HasText(portal.newCowboyName)
                                          THEN "Please select a namespace"
                                          ELSE "Please enter a name for the cowboy"]_vars
    /\ [][(\E r \in NewRequests : r.op = "createCowboy") => ConfirmStep]_vars
    /\ [][(\E r \in net.pending \ net'.pending : r.op = "createCowboy") =>
            LET success == net'.successes # net.successes IN
            /\ success = (\E r \in NewRequests : r.op = "listCowboys")
            /\ success => (~portal'.showAddDialog /\ portal'.loading)
            /\ ~success => /\ portal'.showAddDialog = portal.showAddDialog
                           /\ portal'.loading = portal.loading
                           /\ LastAlert.text = "Failed to create cowboy"]_vars
    /\ [][(portal.showAddDialog /\ ~portal'.showAddDialog
             /\ portal'.inputs = portal.inputs) =>
            net'.successes # net.successes]_vars

(* A name typed with white space around it, created and listed. *)
C34_Witness ==
    /\ portal.newCowboyName = <<" ", "a", "\t">>
    /\ ~portal.showAddDialog
    /\ ~portal.loading
    /\ portal.confirms = 1
    /\ net.successes = 1
    /\ portal.cowboys = {[name |-> <<"a">>, namespace |-> <<"n">>]}

(* C35: when the request behind loadCowboys fails, the component shows the
   'Failed to load cowboys' error alert and sets loading to false. *)
C35_LoadFailureReported ==
    [][net'.failedLists # net.failedLists =>
         /\ ~portal'.loading
         /\ Len(portal'.alerts) = Len(portal.alerts) + 1
         /\ LastAlert.text = "Failed to load cowboys"
         /\ LastAlert.type = "error"]_vars

====
